---- MODULE Spec2Model ----
(***************************************************************************)
(* Model of the on-chain-analysis-agent pipeline: the web scraper's        *)
(* method-fallback acquisition (src/src/services/scraper.ts) and the       *)
(* token resolution of src/src/services/market-data.ts, whose file holds   *)
(* two variants of the resolver: the binary one (lines 1-379, the LLM      *)
(* answers VALID / INVALID) and the percentage one (lines 381-778, the     *)
(* LLM answers CONFIDENCE: n% and DECISION: ...).                          *)
(*                                                                         *)
(* JavaScript strings are sequences of character codes (ASCII), so that    *)
(* toLowerCase, includes, trim, the regular expressions and parseInt are   *)
(* computed on the characters as the code computes them.                   *)
(***************************************************************************)
EXTENDS Integers, Sequences, FiniteSets, TLC

VARIABLES
  \* ---- WebScraper.scrapeMultiple / scrapeUrl
  urls,          \* the argument of scrapeMultiple: a sequence of URL identifiers
  idx,           \* position of the for-loop of scrapeMultiple (1-based)
  spc,           \* where the scraper is: "loop", "axios", "playwright", "delay", "returned"
  results,       \* the results array of scrapeMultiple
  axiosOutcome,  \* per position: what axios.get did for that URL ("none" before)
  pwOutcome,     \* per position: what the Playwright attempt did ("none": not attempted)
  urlResult,     \* per position: what scrapeUrl returned ("pending", "null", "doc")
  browser,       \* the browser field of the WebScraper: "none" (undefined) or "set"
  openBrowsers,  \* how many browsers launched by the scraper are not closed
  waitedMs,      \* milliseconds of setTimeout awaited since the latest scrapeUrl returned
  \* ---- retrieveCoinIDs
  variant,       \* "binary" or "percentage": which half of market-data.ts runs
  call,          \* the call made: its route ("tokens" or "query") and argument
  knowledgeBase, \* the filtered asset list handed to findTokenMatches
  rpc,           \* "start", "awaitLLM", "done"
  potentialTokens, \* the token list retrieveCoinIDs works on
  bindings,      \* what findTokenMatches bound, with the token and the kind of match
  llmCalls,      \* number of agent.runner.ask calls made
  llmOutcome,    \* what the classifier did: none, a response, or a throw
  llmResult,     \* the value calculateMatchPercentageWithLLM returned
  result,        \* the value retrieveCoinIDs returned (or the throw of the service)
  \* ---- SearchService
  searchMode,    \* the method called: "exa", "tavily" (single provider) or "dual"
  queries,       \* the queries argument
  clients,       \* per provider: whether its client was constructed (API key configured)
  pstate,        \* per provider: "idle", "query", "delay", "fulfilled", "rejected"
  allResults,    \* per provider: the allResults array of its search
  answers,       \* per provider: what each consulted query did, in order
  searchResult,  \* what the called method returned or threw
  srpc,          \* "call", "running", "returned"
  delayedMs,     \* per provider: milliseconds of delay awaited since its latest query ended
  \* ---- getCachedKnowledgeBase
  which,         \* "complete" or "filtered": the knowledge base the loader builds
  apiKey,        \* whether COINGECKO_API_KEY is set
  upstream,      \* the listing the upstream holds
  now,           \* Date.now() at the call
  cacheFile,     \* the cache file on disk
  fileAtCall,    \* the cache file as it was when the call was made
  kpc,           \* "call", "delay", "request", "backoff", "write", "returned", "exited"
  kbSource,      \* "none", "cache" (return cached) or "upstream" (setup function entered)
  page,          \* the page variable of fetchFilteredMarketData
  allMarketData, \* the results array of fetchFilteredMarketData
  pushed,        \* the numbers of the pages whose records were pushed, in order
  lastResponse,  \* the latest answer of the upstream: page asked for, kind, status
  waited,        \* milliseconds of delay() awaited since that answer
  rateLimited,   \* whether a 429 was met during this load
  stopReason,    \* why the load stopped paging: "none", "short", "notArray", "error", "nokey"
  freshData,     \* the value the setup function returned
  kbResult,      \* the value getCachedKnowledgeBase returned
  calls,         \* how many getCachedKnowledgeBase calls were made on this cache path
  fetchDoneAt,   \* Date.now() when the latest upstream fetch completed (-1: none yet)
  \* ---- batchProcessWithRateLimit
  batchCall,     \* the call: number of items, batchSize, maxRetries, the operation fn
  bi,            \* the loop variable i (offset of the current batch)
  bpc,           \* "loop", "inflight", "pause", "returned"
  itemState,     \* per item: "pending", "running", "waiting", "value", "dropped"
  attempt,       \* per item: the attempt variable of its mapper
  invocations,   \* per item: how many times fn was invoked on it
  lastError,     \* per item: what its latest invocation rejected with
  batchOut,      \* the results array
  pauses,        \* how many minDelayMs pauses were awaited (counted up to PauseCap)
  pausesSince,   \* how many of them since the latest batch settled
  pausedMs,      \* milliseconds paused since the latest batch settled
  lastSettled,   \* the item whose mapper returned last (0: none yet)
  \* ---- DateExtractor.extractPublicationDate
  clock,         \* new Date() at the call, in hours since the epoch
  selectorValues, \* per selector of the list: what its first element holds
  jsonLdValue,   \* what the structured data holds as datePublished / dateCreated
  urlValue,      \* what the /YYYY/M/D/ pattern finds in the URL
  selector,      \* position in the selectors list (1-based)
  dpc,           \* "selectors", "url", "returned"
  publishedDate, \* what extractPublicationDate returned
  dateMethod,     \* which place gave it: "none", "selector", "jsonLd", "url"
  \* ---- main
  ppc,           \* where main is: "validate" ... "cleanup", "returned", "rejected", "exited"
  enableExa,     \* ENABLE_EXA === 'true'
  searchEngine,  \* the searchEngine variable after line 140
  searchMethod,  \* the SearchService method main called ("none" before)
  augmentedData, \* what fetchDetailedCoinData returned ("none" before)
  validation,    \* what validateCryptoQuery answered: "none", "valid", "invalid"
  detection,     \* what retrieveCoinIDs did: "none", "assets", "error", "throw"
  invoked,       \* the steps of main invoked so far
  consulted,      \* the search providers a query was issued to
  \* ---- concurrent scrapeUrl calls on one WebScraper
  callPc,        \* per scrapeUrl call: "idle", "axios", "launch", "newPage", "goto", "content", "close", "returned"
  browserRef,    \* this.browser: 0 (undefined) or the browser launched by that call
  liveBrowsers,  \* the browsers launched and not closed, named by the launching call
  pageOn,        \* per call: the browser its newPage call went to (0: none)
  pageOpen,      \* per call: whether the page it opened is open
  launches,       \* how many browsers were launched since the latest cleanup
  \* ---- PersistenceMemory
  memData,       \* this.data: per key its value, or undefined
  diskFile,      \* the file at filePath: a MemoryData, or missing
  loadPc,        \* the constructor's loadFromDisk: "pending" or "done"
  pendingSaves,  \* the data of the writeFile calls not settled yet
  lastSet,       \* per key: the value of the latest set() not followed by a remove/clear of the key
  memOps         \* how many set/remove/clear calls were made

scrapeVars == <<urls, idx, spc, results, axiosOutcome, pwOutcome, urlResult, browser,
                openBrowsers, waitedMs>>
resolveVars == <<variant, call, knowledgeBase, rpc, potentialTokens, bindings,
                 llmCalls, llmOutcome, llmResult, result>>
searchVars == <<searchMode, queries, clients, pstate, allResults, answers,
                searchResult, srpc, delayedMs>>
loadVars == <<which, apiKey, upstream, now, cacheFile, fileAtCall, kpc, kbSource,
              page, allMarketData, pushed, lastResponse, waited, rateLimited,
              stopReason, freshData, kbResult, calls, fetchDoneAt>>
batchVars == <<batchCall, bi, bpc, itemState, attempt, invocations, lastError,
               batchOut, pauses, pausesSince, pausedMs, lastSettled>>
dateVars == <<clock, selectorValues, jsonLdValue, urlValue, selector, dpc,
              publishedDate, dateMethod>>
pipeVars == <<ppc, enableExa, searchEngine, searchMethod, augmentedData, validation,
              detection, invoked, consulted>>
instanceVars == <<callPc, browserRef, liveBrowsers, pageOn, pageOpen, launches>>
memoryVars == <<memData, diskFile, loadPc, pendingSaves, lastSet, memOps>>
vars == <<urls, idx, spc, results, axiosOutcome, pwOutcome, urlResult, browser,
          openBrowsers, waitedMs,
          variant, call, knowledgeBase, rpc, potentialTokens, bindings,
          llmCalls, llmOutcome, llmResult, result,
          searchMode, queries, clients, pstate, allResults, answers,
          searchResult, srpc, delayedMs,
          which, apiKey, upstream, now, cacheFile, fileAtCall, kpc, kbSource,
          page, allMarketData, pushed, lastResponse, waited, rateLimited,
          stopReason, freshData, kbResult, calls, fetchDoneAt,
          batchCall, bi, bpc, itemState, attempt, invocations, lastError,
          batchOut, pauses, pausesSince, pausedMs, lastSettled,
          clock, selectorValues, jsonLdValue, urlValue, selector, dpc, publishedDate, dateMethod,
          ppc, enableExa, searchEngine, searchMethod, augmentedData, validation,
          detection, invoked, consulted,
          callPc, browserRef, liveBrowsers, pageOn, pageOpen, launches,
          memData, diskFile, loadPc, pendingSaves, lastSet, memOps>>

----------------------------------------------------------------------------
\* JavaScript string primitives on sequences of character codes

Min(a, b) == IF a < b THEN a ELSE b

\* a comparison that keeps the case: toLowerCase left out
toLowerCase_Identity(s) == s

\* String.prototype.toLowerCase on ASCII: 'A'..'Z' (65..90) move to 'a'..'z'
toLowerCase(s) == [i \in DOMAIN s |-> IF s[i] \in 65..90 THEN s[i] + 32 ELSE s[i]]

\* String.prototype.toUpperCase on ASCII: 'a'..'z' (97..122) move to 'A'..'Z'
toUpperCase(s) == [i \in DOMAIN s |-> IF s[i] \in 97..122 THEN s[i] - 32 ELSE s[i]]

\* s.startsWith(t, p - 1): t occurs in s at the 1-based position p
OccursAt(s, t, p) ==
  /\ p >= 1
  /\ p + Len(t) - 1 <= Len(s)
  /\ \A k \in 1..Len(t) : s[p + k - 1] = t[k]

\* String.prototype.includes
includes(s, t) == \E p \in 1..(Len(s) + 1) : OccursAt(s, t, p)

\* the characters \s matches and trim() strips: tab, LF, VT, FF, CR, space
IsSpace(c) == c \in {9, 10, 11, 12, 13, 32}

\* [0-9], the class \d
IsDigit(c) == c \in 48..57

\* [a-zA-Z0-9], the class of the tokenizer's regular expression
IsAlnum(c) == c \in 48..57 \/ c \in 65..90 \/ c \in 97..122

\* \w, the class that decides where \b holds: [a-zA-Z0-9_]
IsWordChar(c) == IsAlnum(c) \/ c = 95

\* String.prototype.trim
trim(s) ==
  LET keep == {i \in DOMAIN s : ~IsSpace(s[i])}
  IN  IF keep = {} THEN <<>>
      ELSE LET lo == CHOOSE i \in keep : \A j \in keep : i <= j
               hi == CHOOSE i \in keep : \A j \in keep : j <= i
           IN  SubSeq(s, lo, hi)

\* first position >= p of s holding a character that is not white space (\s*)
RECURSIVE SkipSpaces(_, _)
SkipSpaces(s, p) ==
  IF p <= Len(s) /\ IsSpace(s[p]) THEN SkipSpaces(s, p + 1) ELSE p

\* first position >= p of s holding a character that is not a digit (\d+, greedy)
RECURSIVE SkipDigits(_, _)
SkipDigits(s, p) ==
  IF p <= Len(s) /\ IsDigit(s[p]) THEN SkipDigits(s, p + 1) ELSE p

\* parseInt of a string of decimal digits
RECURSIVE parseInt(_)
parseInt(ds) ==
  IF ds = <<>> THEN 0
  ELSE 10 * parseInt(SubSeq(ds, 1, Len(ds) - 1)) + (ds[Len(ds)] - 48)

\* the least element of a non-empty set of positions (the leftmost match)
Leftmost(S) == CHOOSE p \in S : \A q \in S : p <= q

----------------------------------------------------------------------------
\* Literals of market-data.ts

Str_VALID == <<86, 65, 76, 73, 68>>  \* 'VALID'
Str_INVALID == <<73, 78, 86, 65, 76, 73, 68>>  \* 'INVALID'
Str_confidenceColon == <<99, 111, 110, 102, 105, 100, 101, 110, 99, 101, 58>>  \* 'confidence:'
Str_decisionColon == <<100, 101, 99, 105, 115, 105, 111, 110, 58>>  \* 'decision:'
Str_valid == <<118, 97, 108, 105, 100>>  \* 'valid'
Str_invalid == <<105, 110, 118, 97, 108, 105, 100>>  \* 'invalid'

\* the text that stands for a result of agent.runner.ask that is not a string
NonStringDefaultBinary == <<73, 78, 86, 65, 76, 73, 68>>  \* 'INVALID'
NonStringDefaultPct == <<67, 79, 78, 70, 73, 68, 69, 78, 67, 69, 58, 32, 48, 37, 10, 68, 69, 67, 73, 83, 73, 79, 78, 58, 32, 73, 78, 86, 65, 76, 73, 68>>  \* 'CONFIDENCE: 0%\nDECISION: INVALID'

\* protocol token coin network chain finance
commonWords ==
  {
    <<112, 114, 111, 116, 111, 99, 111, 108>>,
    <<116, 111, 107, 101, 110>>,
    <<99, 111, 105, 110>>,
    <<110, 101, 116, 119, 111, 114, 107>>,
    <<99, 104, 97, 105, 110>>,
    <<102, 105, 110, 97, 110, 99, 101>>
  }

\* the and for with analysis technical price token coin crypto cryptocurrency vs comparison compare latest news market trends july august september october november december 2025 2024 2023 2022 2021 2020
stopwords ==
  {
    <<116, 104, 101>>,
    <<97, 110, 100>>,
    <<102, 111, 114>>,
    <<119, 105, 116, 104>>,
    <<97, 110, 97, 108, 121, 115, 105, 115>>,
    <<116, 101, 99, 104, 110, 105, 99, 97, 108>>,
    <<112, 114, 105, 99, 101>>,
    <<116, 111, 107, 101, 110>>,
    <<99, 111, 105, 110>>,
    <<99, 114, 121, 112, 116, 111>>,
    <<99, 114, 121, 112, 116, 111, 99, 117, 114, 114, 101, 110, 99, 121>>,
    <<118, 115>>,
    <<99, 111, 109, 112, 97, 114, 105, 115, 111, 110>>,
    <<99, 111, 109, 112, 97, 114, 101>>,
    <<108, 97, 116, 101, 115, 116>>,
    <<110, 101, 119, 115>>,
    <<109, 97, 114, 107, 101, 116>>,
    <<116, 114, 101, 110, 100, 115>>,
    <<106, 117, 108, 121>>,
    <<97, 117, 103, 117, 115, 116>>,
    <<115, 101, 112, 116, 101, 109, 98, 101, 114>>,
    <<111, 99, 116, 111, 98, 101, 114>>,
    <<110, 111, 118, 101, 109, 98, 101, 114>>,
    <<100, 101, 99, 101, 109, 98, 101, 114>>,
    <<50, 48, 50, 53>>,
    <<50, 48, 50, 52>>,
    <<50, 48, 50, 51>>,
    <<50, 48, 50, 50>>,
    <<50, 48, 50, 49>>,
    <<50, 48, 50, 48>>
  }

\* words of the list `eng` of the stopword package that the queries below can hold
\* the and for with about
engStopwords ==
  {
    <<116, 104, 101>>,
    <<97, 110, 100>>,
    <<102, 111, 114>>,
    <<119, 105, 116, 104>>,
    <<97, 98, 111, 117, 116>>
  }

\* analysis technical price token coin crypto cryptocurrency vs comparison compare latest news market trends about please give show tell explain current recent
cryptoStopwords ==
  {
    <<97, 110, 97, 108, 121, 115, 105, 115>>,
    <<116, 101, 99, 104, 110, 105, 99, 97, 108>>,
    <<112, 114, 105, 99, 101>>,
    <<116, 111, 107, 101, 110>>,
    <<99, 111, 105, 110>>,
    <<99, 114, 121, 112, 116, 111>>,
    <<99, 114, 121, 112, 116, 111, 99, 117, 114, 114, 101, 110, 99, 121>>,
    <<118, 115>>,
    <<99, 111, 109, 112, 97, 114, 105, 115, 111, 110>>,
    <<99, 111, 109, 112, 97, 114, 101>>,
    <<108, 97, 116, 101, 115, 116>>,
    <<110, 101, 119, 115>>,
    <<109, 97, 114, 107, 101, 116>>,
    <<116, 114, 101, 110, 100, 115>>,
    <<97, 98, 111, 117, 116>>,
    <<112, 108, 101, 97, 115, 101>>,
    <<103, 105, 118, 101>>,
    <<115, 104, 111, 119>>,
    <<116, 101, 108, 108>>,
    <<101, 120, 112, 108, 97, 105, 110>>,
    <<99, 117, 114, 114, 101, 110, 116>>,
    <<114, 101, 99, 101, 110, 116>>
  }

----------------------------------------------------------------------------
\* Program constants

MinContentLength == 100
CleanedContentMax == 8000
UrlCap == 10
ScrapePauseMs == 1000
SuggestionLimit == 3
ConfidenceThreshold == 60
MinWordLen == 2
MaxWordLen == 20

\* Bounds of the model
MaxUrls == 3
MaxScrapeCalls == 3
MaxMemoryOps == 3
\* the length of the one longer list scrapeMultiple is given: past the cap
LongList == UrlCap + 1
MaxTokens == 2
MaxAssets == 2

----------------------------------------------------------------------------
\* extractPotentialTokens

\* first position >= p of s holding a character that is not a word character
RECURSIVE RunEnd(_, _)
RunEnd(s, p) ==
  IF p <= Len(s) /\ IsWordChar(s[p]) THEN RunEnd(s, p + 1) ELSE p

\* query.match(/\b[a-zA-Z0-9]{2,20}\b/g) || []: the maximal runs of word
\* characters that hold only letters and digits and are 2 to 20 long. A run with
\* an underscore or of another length has no \b at the ends of any 2..20 letters
\* of it, so it yields nothing.
RECURSIVE MatchWords(_, _)
MatchWords(s, p) ==
  IF p > Len(s) THEN <<>>
  ELSE IF ~IsWordChar(s[p]) THEN MatchWords(s, p + 1)
  ELSE LET e == RunEnd(s, p)
           run == SubSeq(s, p, e - 1)
           ok == /\ \A i \in DOMAIN run : IsAlnum(run[i])
                 /\ Len(run) >= MinWordLen
                 /\ Len(run) <= MaxWordLen
       IN  (IF ok THEN <<run>> ELSE <<>>) \o MatchWords(s, e)

\* Array.prototype.filter with the predicate "w is not in the set drop, lowered"
RECURSIVE FilterWords(_, _)
FilterWords(ws, drop) ==
  IF ws = <<>> THEN <<>>
  ELSE (IF toLowerCase(Head(ws)) \in drop THEN <<>> ELSE <<Head(ws)>>)
       \o FilterWords(Tail(ws), drop)

\* extractPotentialTokens of the binary variant (the query is a string here)
extractPotentialTokensBinary(query) == FilterWords(MatchWords(query, 1), stopwords)

\* extractPotentialTokens of the percentage variant: removeStopwords(words, eng),
\* then the crypto stop words
extractPotentialTokensPct(query) ==
  FilterWords(FilterWords(MatchWords(query, 1), engStopwords), cryptoStopwords)

extractPotentialTokens(v, query) ==
  IF v = "binary" THEN extractPotentialTokensBinary(query)
  ELSE extractPotentialTokensPct(query)

----------------------------------------------------------------------------
\* findTokenMatches (the same code in both variants)

\* the kind of match the three tests of the inner loop give for one asset, the
\* tests taken in the order of the code; "none" when no test passes
MatchKind(lowerToken, asset) ==
  LET assetName == toLowerCase(asset.name)
      assetSymbol == toLowerCase(asset.symbol)
  IN  IF assetSymbol = lowerToken THEN "exact-symbol"
      ELSE IF assetName = lowerToken THEN "exact-name"
      ELSE IF includes(assetName, lowerToken) /\ Len(lowerToken) > 2 THEN "partial-name"
      ELSE "none"

\* the inner loop without the foundIds guard of its three tests
FirstMatch_IgnoreFound(lowerToken, assetList, foundIds) ==
  LET hits == {j \in DOMAIN assetList : MatchKind(lowerToken, assetList[j]) # "none"}
  IN  IF hits = {} THEN 0 ELSE Leftmost(hits)

\* the first asset of the list, in scan order, that passes one of the three tests
\* and whose id is not in foundIds; 0 when the loop ends without a break
FirstMatch(lowerToken, assetList, foundIds) ==
  LET hits == {j \in DOMAIN assetList :
                 /\ MatchKind(lowerToken, assetList[j]) # "none"
                 /\ assetList[j].id \notin foundIds}
  IN  IF hits = {} THEN 0 ELSE Leftmost(hits)

\* the outer loop from token number i on, with the matches pushed so far
RECURSIVE MatchFrom(_, _, _, _)
MatchFrom(tokens, assetList, i, acc) ==
  IF i > Len(tokens) THEN acc
  ELSE LET lowerToken == toLowerCase(tokens[i])
           foundIds == {acc[k].asset.id : k \in DOMAIN acc}
           j == FirstMatch(lowerToken, assetList, foundIds)
       IN  IF lowerToken \in commonWords THEN MatchFrom(tokens, assetList, i + 1, acc)
           ELSE IF j = 0 THEN MatchFrom(tokens, assetList, i + 1, acc)
           ELSE MatchFrom(tokens, assetList, i + 1,
                          Append(acc, [token |-> tokens[i],
                                       asset |-> assetList[j],
                                       kind |-> MatchKind(lowerToken, assetList[j])]))

\* findTokenMatches, each pushed asset kept with the token and test that pushed it
FindBindings(tokens, assetList) == MatchFrom(tokens, assetList, 1, <<>>)

\* the array findTokenMatches returns
AssetsOf(bs) == [k \in DOMAIN bs |-> bs[k].asset]
findTokenMatches(tokens, assetList) == AssetsOf(FindBindings(tokens, assetList))

----------------------------------------------------------------------------
\* calculateMatchPercentageWithLLM

\* Array.prototype.slice(0, n)
slice0(s, n) == SubSeq(s, 1, Min(n, Len(s)))

\* the value of a field that is undefined
NoSuggestions == <<>>
NoConfidence == -1

\* what the function returns: suggestions and confidence may be undefined
Verdict(isValid, hasConfidence, confidence, hasSuggestions, suggestions) ==
  [isValid |-> isValid,
   hasConfidence |-> hasConfidence, confidence |-> confidence,
   hasSuggestions |-> hasSuggestions, suggestions |-> suggestions]

\* the catch branch comparing the symbol only
hasExactMatch_SymbolOnly(userTokens, foundMatches) ==
  \E m \in DOMAIN foundMatches : \E t \in DOMAIN userTokens :
    toLowerCase(userTokens[t]) = toLowerCase(foundMatches[m].symbol)

\* the catch branch: foundMatches.some(match => userTokens.some(token => ...))
hasExactMatch(userTokens, foundMatches) ==
  \E m \in DOMAIN foundMatches : \E t \in DOMAIN userTokens :
    \/ toLowerCase(userTokens[t]) = toLowerCase(foundMatches[m].symbol)
    \/ toLowerCase(userTokens[t]) = toLowerCase(foundMatches[m].name)

FallbackBinary(userTokens, foundMatches) ==
  Verdict(hasExactMatch(userTokens, foundMatches), FALSE, NoConfidence,
          FALSE, NoSuggestions)

FallbackPct(userTokens, foundMatches) ==
  LET ok == hasExactMatch(userTokens, foundMatches)
  IN  Verdict(ok, TRUE, IF ok THEN 100 ELSE 0, FALSE, NoSuggestions)

\* binary variant, the try branch after agent.runner.ask returned `answer`
\* (answer.isString: typeof result === 'string')
ResponseTextBinary(answer) ==
  IF answer.isString THEN toUpperCase(trim(answer.text)) ELSE NonStringDefaultBinary

IsValidBinary(response) == includes(response, Str_VALID)

VerdictBinary(answer, foundMatches) ==
  IF ~IsValidBinary(ResponseTextBinary(answer))
  THEN Verdict(FALSE, FALSE, NoConfidence, TRUE, slice0(foundMatches, SuggestionLimit))
  ELSE Verdict(TRUE, FALSE, NoConfidence, FALSE, NoSuggestions)

\* a result that is no string read as an acceptance
ResponseTextPct_AcceptNonString(answer) ==
  IF answer.isString THEN trim(answer.text)
  ELSE <<67, 79, 78, 70, 73, 68, 69, 78, 67, 69, 58, 32, 49, 48, 48, 37, 10, 68, 69, 67, 73, 83, 73, 79, 78, 58, 32, 86, 65, 76, 73, 68>>  \* 'CONFIDENCE: 100%\nDECISION: VALID'

\* percentage variant
ResponseTextPct(answer) ==
  IF answer.isString THEN trim(answer.text) ELSE NonStringDefaultPct

\* response.match(/CONFIDENCE:\s*(\d+)%/i): the positions where the whole
\* expression matches, and the digits the leftmost match captures (<<>>: null)
ConfidenceMatches(response) ==
  LET low == toLowerCase(response)
  IN  {p \in DOMAIN response :
         /\ OccursAt(low, Str_confidenceColon, p)
         /\ LET q == SkipSpaces(response, p + Len(Str_confidenceColon))
                e == SkipDigits(response, q)
            IN  e > q /\ e <= Len(response) /\ response[e] = 37}

confidenceMatch(response) ==
  LET ms == ConfidenceMatches(response)
  IN  IF ms = {} THEN <<>>
      ELSE LET q == SkipSpaces(response, Leftmost(ms) + Len(Str_confidenceColon))
           IN  SubSeq(response, q, SkipDigits(response, q) - 1)

\* response.match(/DECISION:\s*(VALID|INVALID)/i), the captured word (<<>>: null)
DecisionAt(response, low, p) ==
  LET q == SkipSpaces(response, p + Len(Str_decisionColon))
  IN  IF ~OccursAt(low, Str_decisionColon, p) THEN <<>>
      ELSE IF OccursAt(low, Str_valid, q) THEN SubSeq(response, q, q + Len(Str_valid) - 1)
      ELSE IF OccursAt(low, Str_invalid, q) THEN SubSeq(response, q, q + Len(Str_invalid) - 1)
      ELSE <<>>

decisionMatch(response) ==
  LET low == toLowerCase(response)
      ms == {p \in DOMAIN response : DecisionAt(response, low, p) # <<>>}
  IN  IF ms = {} THEN <<>> ELSE DecisionAt(response, low, Leftmost(ms))

\* confidenceMatch ? parseInt(confidenceMatch[1]) : 0
confidencePercentage(response) ==
  LET m == confidenceMatch(response)
  IN  IF m # <<>> THEN parseInt(m) ELSE 0

\* decisionMatch ? decisionMatch[1].toUpperCase() : 'INVALID'
decision(response) ==
  LET m == decisionMatch(response)
  IN  IF m # <<>> THEN toUpperCase(m) ELSE Str_INVALID

\* the threshold compared with > instead of >=
IsValidPct_Strict(dec, conf) == dec = Str_VALID /\ conf > ConfidenceThreshold

\* decision === 'VALID' && confidencePercentage >= 60
IsValidPct(dec, conf) == dec = Str_VALID /\ conf >= ConfidenceThreshold

VerdictPct(answer, foundMatches) ==
  LET response == ResponseTextPct(answer)
      conf == confidencePercentage(response)
      dec == decision(response)
  IN  IF ~IsValidPct(dec, conf)
      THEN Verdict(FALSE, TRUE, conf, TRUE, slice0(foundMatches, SuggestionLimit))
      ELSE Verdict(TRUE, TRUE, conf, FALSE, NoSuggestions)

----------------------------------------------------------------------------
\* retrieveCoinIDs

MsgGeneric ==
  "Sorry, we only serve mid to popular coins for now. Please ask about well-known cryptocurrencies."
MsgLowConfidence ==
  "The tokens you mentioned have low match confidence. Please ask questions with complete names like in this list to process your request. If your token is not listed, sorry we are not serving that token right now."
MsgBelowThreshold ==
  "Match confidence is ${confidence}% (below 60% threshold). Found these tokens: ${matchedTokens}. Please clarify by using complete token names from this list to improve accuracy."
MsgNotInitialized == "Knowledge base not initialized. Call setupKnowledgeBase() first."

\* the values retrieveCoinIDs can return, and the throw of the service method
Accepted(records) ==
  [kind |-> "list", records |-> records, error |-> "", confidence |-> NoConfidence,
   hasSuggestions |-> FALSE, suggestions |-> NoSuggestions]
Rejection(msg, confidence, hasSuggestions, suggestions) ==
  [kind |-> "error", records |-> <<>>, error |-> msg, confidence |-> confidence,
   hasSuggestions |-> hasSuggestions, suggestions |-> suggestions]
Thrown(msg) ==
  [kind |-> "throw", records |-> <<>>, error |-> msg, confidence |-> NoConfidence,
   hasSuggestions |-> FALSE, suggestions |-> NoSuggestions]
NoResult ==
  [kind |-> "none", records |-> <<>>, error |-> "", confidence |-> NoConfidence,
   hasSuggestions |-> FALSE, suggestions |-> NoSuggestions]

\* the part of retrieveCoinIDs after the await, binary variant
FinishBinary(v, matches) ==
  IF ~v.isValid
  THEN Rejection(MsgLowConfidence, NoConfidence, v.hasSuggestions, v.suggestions)
  ELSE Accepted(matches)

\* the part of retrieveCoinIDs after the await, percentage variant
FinishPct(v, matches) ==
  IF ~v.isValid
  THEN LET confidence == IF v.hasConfidence THEN v.confidence ELSE 0
       IN  IF /\ confidence > 0
              /\ confidence < ConfidenceThreshold
              /\ v.hasSuggestions
              /\ Len(v.suggestions) > 0
           THEN Rejection(MsgBelowThreshold, confidence, TRUE, v.suggestions)
           ELSE Rejection(MsgGeneric, NoConfidence, v.hasSuggestions, v.suggestions)
  ELSE Accepted(matches)

Finish(var, v, matches) ==
  IF var = "binary" THEN FinishBinary(v, matches) ELSE FinishPct(v, matches)

VerdictOf(var, answer, foundMatches) ==
  IF var = "binary" THEN VerdictBinary(answer, foundMatches)
  ELSE VerdictPct(answer, foundMatches)

FallbackOf(var, userTokens, foundMatches) ==
  IF var = "binary" THEN FallbackBinary(userTokens, foundMatches)
  ELSE FallbackPct(userTokens, foundMatches)

----------------------------------------------------------------------------
\* Inputs of the resolver: tokens, queries, asset records, classifier answers

Tok_BTC == <<66, 84, 67>>  \* 'BTC'
Tok_bit == <<98, 105, 116>>  \* 'bit'
Tok_bitcoin == <<98, 105, 116, 99, 111, 105, 110>>  \* 'bitcoin'
Tok_coin == <<99, 111, 105, 110>>  \* 'coin'
Tok_eth == <<101, 116, 104>>  \* 'eth'
Tok_et == <<101, 116>>  \* 'et'
TokenPool == {Tok_BTC, Tok_bit, Tok_bitcoin, Tok_coin, Tok_eth, Tok_et}

Query_coin_price == <<99, 111, 105, 110, 32, 112, 114, 105, 99, 101>>  \* 'coin price'
Query_BTC_analysis == <<66, 84, 67, 32, 97, 110, 97, 108, 121, 115, 105, 115>>  \* 'BTC analysis'
Query_bit_vs_bitcoin == <<98, 105, 116, 32, 118, 115, 32, 98, 105, 116, 99, 111, 105, 110>>  \* 'bit vs bitcoin'
Queries == {Query_coin_price, Query_BTC_analysis, Query_bit_vs_bitcoin}

\* id 'bitcoin', symbol 'btc', name 'Bitcoin'
Asset_Bitcoin ==
  [id |-> <<98, 105, 116, 99, 111, 105, 110>>,
   symbol |-> <<98, 116, 99>>,
   name |-> <<66, 105, 116, 99, 111, 105, 110>>]
\* id 'bitdao', symbol 'bit', name 'BitDAO'
Asset_BitDAO ==
  [id |-> <<98, 105, 116, 100, 97, 111>>,
   symbol |-> <<98, 105, 116>>,
   name |-> <<66, 105, 116, 68, 65, 79>>]
\* id 'ethereum', symbol 'eth', name 'Ethereum'
Asset_Ethereum ==
  [id |-> <<101, 116, 104, 101, 114, 101, 117, 109>>,
   symbol |-> <<101, 116, 104>>,
   name |-> <<69, 116, 104, 101, 114, 101, 117, 109>>]
\* id 'wrapped-bitcoin', symbol 'wbtc', name 'Wrapped Bitcoin'
Asset_WrappedBitcoin ==
  [id |-> <<119, 114, 97, 112, 112, 101, 100, 45, 98, 105, 116, 99, 111, 105, 110>>,
   symbol |-> <<119, 98, 116, 99>>,
   name |-> <<87, 114, 97, 112, 112, 101, 100, 32, 66, 105, 116, 99, 111, 105, 110>>]
AssetPool == {Asset_Bitcoin, Asset_BitDAO, Asset_Ethereum, Asset_WrappedBitcoin}

Ans_VALID == <<86, 65, 76, 73, 68>>  \* 'VALID'
Ans_INVALID == <<73, 78, 86, 65, 76, 73, 68>>  \* 'INVALID'
Ans_Yes == <<89, 101, 115>>  \* 'Yes'
Ans_valid_padded == <<32, 118, 97, 108, 105, 100, 10>>  \* ' valid\n'
Ans_DecisionOnly == <<68, 69, 67, 73, 83, 73, 79, 78, 58, 32, 86, 65, 76, 73, 68>>  \* 'DECISION: VALID'
Ans_ConfidenceOnly == <<67, 79, 78, 70, 73, 68, 69, 78, 67, 69, 58, 32, 57, 48, 37>>  \* 'CONFIDENCE: 90%'
Ans_lower_61 == <<99, 111, 110, 102, 105, 100, 101, 110, 99, 101, 58, 54, 49, 37, 10, 100, 101, 99, 105, 115, 105, 111, 110, 58, 32, 118, 97, 108, 105, 100>>  \* 'confidence:61%\ndecision: valid'
Str_ConfidenceField == <<67, 79, 78, 70, 73, 68, 69, 78, 67, 69, 58, 32>>  \* 'CONFIDENCE: '
Str_DecisionField == <<37, 10, 68, 69, 67, 73, 83, 73, 79, 78, 58, 32>>  \* '%\nDECISION: '

\* the decimal digits of a natural number
RECURSIVE Digits(_)
Digits(n) == IF n < 10 THEN <<48 + n>> ELSE Digits(n \div 10) \o <<48 + (n % 10)>>

\* an answer in the format the prompt of the percentage variant asks for:
\* CONFIDENCE: [percentage]%, then DECISION: [VALID/INVALID] on the next line
FormatAnswer(n, word) ==
  Str_ConfidenceField \o Digits(n) \o Str_DecisionField \o word

ConfidenceValues == {35, 59, 60, 95}
DecisionWords == {Str_VALID, Str_INVALID}
FormattedAnswers == {FormatAnswer(n, w) : n \in ConfidenceValues, w \in DecisionWords}

AnswerTexts ==
  {Ans_VALID, Ans_INVALID, Ans_Yes, Ans_valid_padded, Ans_DecisionOnly,
   Ans_ConfidenceOnly, Ans_lower_61} \cup FormattedAnswers

\* what agent.runner.ask can resolve to: a string, or a value that is no string
StringAnswer(text) == [isString |-> TRUE, text |-> text]
NonStringAnswer == [isString |-> FALSE, text |-> <<>>]
Answers == {StringAnswer(t) : t \in AnswerTexts} \cup {NonStringAnswer}

\* the sequences over S of length at most n
SeqsUpTo(S, n) == UNION {[1..k -> S] : k \in 0..n}

\* four tokens that bind four records of FullAssetList
FourTokens == <<Tok_BTC, Tok_bit, Tok_eth, Tok_bitcoin>>
FullAssetList == <<Asset_Bitcoin, Asset_BitDAO, Asset_Ethereum, Asset_WrappedBitcoin>>

TokenLists == SeqsUpTo(TokenPool, MaxTokens) \cup {FourTokens}

\* asset lists hold each record once (the identifier is unique upstream)
AssetLists ==
  {l \in SeqsUpTo(AssetPool, MaxAssets) : \A i, j \in DOMAIN l : l[i] = l[j] => i = j}
    \cup {FullAssetList}

TokensCall(tokens) == [route |-> "tokens", tokens |-> tokens, query |-> <<>>]
QueryCall(query) == [route |-> "query", tokens |-> <<>>, query |-> query]
Calls == {TokensCall(t) : t \in TokenLists} \cup {QueryCall(q) : q \in Queries}

NoOutcome == [kind |-> "none", answer |-> NonStringAnswer]
Responded(answer) == [kind |-> "response", answer |-> answer]
Threw == [kind |-> "throw", answer |-> NonStringAnswer]

NoVerdict == Verdict(FALSE, FALSE, NoConfidence, FALSE, NoSuggestions)

----------------------------------------------------------------------------
\* WebScraper

\* what a fetch can give: markup whose readable text has textLen characters
FailureKinds == {"timeout", "status", "transport"}
TextLens == {50, 99, 100, 9000}
Markup(n) == [kind |-> "markup", textLen |-> n]
Failure(k) == [kind |-> k, textLen |-> 0]
NotTried == [kind |-> "none", textLen |-> 0]

\* the answers the fetches of a run draw from: all of them for a list of up to
\* MaxUrls URLs, one failure and one long text for the list of LongList URLs
FailuresFor(l) == IF Len(l) <= MaxUrls THEN FailureKinds ELSE {"timeout"}
TextLensFor(l) == IF Len(l) <= MaxUrls THEN TextLens ELSE {9000}

\* the positions of the per-URL records
UrlSlots == 1..LongList

Null == [kind |-> "null", url |-> 0, contentLen |-> 0, cleanedLen |-> 0]
Document(url, n) ==
  [kind |-> "doc", url |-> url, contentLen |-> n, cleanedLen |-> Min(n, CleanedContentMax)]

\* extractContent: content shorter than 100 characters throws 'Insufficient
\* content', which its own catch turns into null
extractContent(url, html) ==
  IF html.textLen < MinContentLength THEN Null ELSE Document(url, html.textLen)

\* scrapeUrl returning whatever tryAxiosMethod returned, null included
AfterAxiosResult_NoFallback(r) == "return"

\* scrapeUrl after tryAxiosMethod returned `r`: "return" (if (result) return
\* result) or "playwright" (go on to tryPlaywrightMethod)
AfterAxiosResult(r) == IF r # Null THEN "return" ELSE "playwright"

\* scrapeUrl after tryAxiosMethod threw: the throw leaves the try block, so the
\* catch of scrapeUrl returns null ("return"); "playwright" would be the next
\* statement of the try block
AfterAxiosThrow == "return"

\* the loop running over the whole of urls
Attempted_All == 1..Len(urls)

\* urls.slice(0, 10)
Attempted == 1..Min(Len(urls), UrlCap)

\* every return of scrapeUrl pushed, null included
Pushed_KeepNull(r) == Append(results, r)

\* scrapeMultiple: `if (result) results.push(result)`
Pushed(r) == IF r # Null THEN Append(results, r) ELSE results

InitScraper ==
  /\ urls \in {[i \in 1..n |-> i] : n \in (0..MaxUrls) \cup {LongList}}
  /\ idx = 1
  /\ spc = "loop"
  /\ results = <<>>
  /\ axiosOutcome = [i \in UrlSlots |-> NotTried]
  /\ pwOutcome = [i \in UrlSlots |-> NotTried]
  /\ urlResult = [i \in UrlSlots |-> "pending"]
  /\ browser = "none"
  /\ openBrowsers = 0
  /\ waitedMs = 0

\* the for-loop takes the next URL: scrapeUrl calls tryAxiosMethod (axios.get)
ScrapeNext ==
  /\ spc = "loop"
  /\ idx \in Attempted
  /\ spc' = "axios"
  /\ UNCHANGED <<urls, idx, results, axiosOutcome, pwOutcome, urlResult, browser,
                 openBrowsers, waitedMs>>

\* the return of scrapeUrl with `r`, back in the loop of scrapeMultiple
ReturnFromScrapeUrl(r) ==
  /\ urlResult' = [urlResult EXCEPT ![idx] = r.kind]
  /\ results' = Pushed(r)
  /\ waitedMs' = 0
  /\ spc' = "delay"

\* axios.get rejects: tryAxiosMethod rethrows 'Axios failed'
AxiosFails ==
  /\ spc = "axios"
  /\ \E k \in FailuresFor(urls) :
       /\ axiosOutcome' = [axiosOutcome EXCEPT ![idx] = Failure(k)]
       /\ IF AfterAxiosThrow = "return"
          THEN ReturnFromScrapeUrl(Null)
          ELSE /\ spc' = "playwright"
               /\ UNCHANGED <<results, urlResult, waitedMs>>
  /\ UNCHANGED <<urls, idx, pwOutcome, browser, openBrowsers>>

\* axios.get resolves with markup: extractContent, then the test of scrapeUrl
AxiosReturns ==
  /\ spc = "axios"
  /\ \E n \in TextLensFor(urls) :
       LET r == extractContent(urls[idx], Markup(n))
       IN  /\ axiosOutcome' = [axiosOutcome EXCEPT ![idx] = Markup(n)]
           /\ IF AfterAxiosResult(r) = "return"
              THEN ReturnFromScrapeUrl(r)
              ELSE /\ spc' = "playwright"
                   /\ UNCHANGED <<results, urlResult, waitedMs>>
  /\ UNCHANGED <<urls, idx, pwOutcome, browser, openBrowsers>>

\* `if (!this.browser) this.browser = await chromium.launch(...)`, the launch
\* having succeeded
Launched ==
  /\ browser' = "set"
  /\ openBrowsers' = IF browser = "none" THEN openBrowsers + 1 ELSE openBrowsers

\* the browser attempt fails: tryPlaywrightMethod rethrows 'Playwright failed',
\* scrapeUrl returns null. Either the launch itself rejects, or a later step
\* (newPage, goto, content) does, with the browser launched
PlaywrightFails ==
  /\ spc = "playwright"
  /\ \E k \in FailuresFor(urls) :
       pwOutcome' = [pwOutcome EXCEPT ![idx] = Failure(k)]
  /\ \/ browser = "none" /\ UNCHANGED <<browser, openBrowsers>>
     \/ Launched
  /\ ReturnFromScrapeUrl(Null)
  /\ UNCHANGED <<urls, idx, axiosOutcome>>

\* the browser attempt gives markup: scrapeUrl returns what extractContent gives
PlaywrightReturns ==
  /\ spc = "playwright"
  /\ \E n \in TextLensFor(urls) :
       /\ pwOutcome' = [pwOutcome EXCEPT ![idx] = Markup(n)]
       /\ ReturnFromScrapeUrl(extractContent(urls[idx], Markup(n)))
  /\ Launched
  /\ UNCHANGED <<urls, idx, axiosOutcome>>

\* the 1000 ms pause that ends each iteration
Delay ==
  /\ spc = "delay"
  /\ spc' = "loop"
  /\ idx' = idx + 1
  /\ waitedMs' = waitedMs + ScrapePauseMs
  /\ UNCHANGED <<urls, results, axiosOutcome, pwOutcome, urlResult, browser, openBrowsers>>

\* the loop is over: scrapeMultiple returns results
ScrapeMultipleReturns ==
  /\ spc = "loop"
  /\ idx \notin Attempted
  /\ spc' = "returned"
  /\ UNCHANGED <<urls, idx, results, axiosOutcome, pwOutcome, urlResult, browser,
                 openBrowsers, waitedMs>>

\* WebScraper.cleanup: a set browser is closed and the field cleared
Cleanup ==
  /\ browser' = "none"
  /\ openBrowsers' = IF browser = "set" THEN openBrowsers - 1 ELSE openBrowsers

----------------------------------------------------------------------------
\* retrieveCoinIDs as a process

InitResolver ==
  /\ variant \in {"binary", "percentage"}
  /\ call \in Calls
  /\ knowledgeBase \in AssetLists
  /\ rpc = "start"
  /\ potentialTokens = <<>>
  /\ bindings = <<>>
  /\ llmCalls = 0
  /\ llmOutcome = NoOutcome
  /\ llmResult = NoVerdict
  /\ result = NoResult

\* retrieveCoinIDs up to its await: the two early returns, else the call of
\* calculateMatchPercentageWithLLM, which runs up to agent.runner.ask
RetrieveBody(tokens) ==
  /\ potentialTokens' = tokens
  /\ IF Len(tokens) = 0
     THEN /\ result' = Accepted(<<>>)
          /\ rpc' = "done"
          /\ UNCHANGED <<bindings, llmCalls>>
     ELSE LET bs == FindBindings(tokens, knowledgeBase)
          IN  /\ bindings' = bs
              /\ IF Len(AssetsOf(bs)) = 0
                 THEN /\ result' = Rejection(MsgGeneric, NoConfidence, FALSE, NoSuggestions)
                      /\ rpc' = "done"
                      /\ UNCHANGED llmCalls
                 ELSE /\ rpc' = "awaitLLM"
                      /\ llmCalls' = llmCalls + 1
                      /\ UNCHANGED result
  /\ UNCHANGED <<variant, call, knowledgeBase, llmOutcome, llmResult>>

\* the exported function called with a token list
RetrieveCoinIDs ==
  /\ rpc = "start"
  /\ call.route = "tokens"
  /\ RetrieveBody(call.tokens)

\* MarketDataService.retrieveCoinIDs(query)
ServiceRetrieveCoinIDs ==
  /\ rpc = "start"
  /\ call.route = "query"
  /\ IF Len(knowledgeBase) = 0
     THEN /\ result' = Thrown(MsgNotInitialized)
          /\ rpc' = "done"
          /\ UNCHANGED <<variant, call, knowledgeBase, potentialTokens, bindings,
                         llmCalls, llmOutcome, llmResult>>
     ELSE RetrieveBody(extractPotentialTokens(variant, call.query))

\* agent.runner.ask resolves
ClassifierAnswers ==
  /\ rpc = "awaitLLM"
  /\ \E a \in Answers :
       LET v == VerdictOf(variant, a, AssetsOf(bindings))
       IN  /\ llmOutcome' = Responded(a)
           /\ llmResult' = v
           /\ result' = Finish(variant, v, AssetsOf(bindings))
  /\ rpc' = "done"
  /\ UNCHANGED <<variant, call, knowledgeBase, potentialTokens, bindings, llmCalls>>

\* building the agent or agent.runner.ask rejects: the catch branch
ClassifierThrows ==
  /\ rpc = "awaitLLM"
  /\ LET v == FallbackOf(variant, potentialTokens, AssetsOf(bindings))
     IN  /\ llmResult' = v
         /\ result' = Finish(variant, v, AssetsOf(bindings))
  /\ llmOutcome' = Threw
  /\ rpc' = "done"
  /\ UNCHANGED <<variant, call, knowledgeBase, potentialTokens, bindings, llmCalls>>

----------------------------------------------------------------------------
\* SearchService (scraper.ts): searchExaOnly, searchTavilyOnly, searchDualEngine

Providers == {"exa", "tavily"}

\* queries.slice(0, 3): the number of queries a provider consults
QueryCap == 3

\* the model's largest query list
MaxQueries == 4

\* URLs and the hit lists one provider query can answer with
UrlPool == {1, 2}
HitLists == {<<>>, <<1>>, <<2>>, <<1, 2>>}
QueryLists == {[i \in 1..n |-> i] : n \in 0..MaxQueries}

\* one formatted result: its URL and the provider whose answer it was built from
Hit(u, p) == [url |-> u, from |-> p]
formattedResults(hits, p) == [k \in DOMAIN hits |-> Hit(hits[k], p)]

QueryAnswered(hits) == [kind |-> "hits", hits |-> hits]
QueryFailed == [kind |-> "error", hits |-> <<>>]

NoSearchResult == [kind |-> "none", urls |-> <<>>, results |-> <<>>, source |-> "none"]
SearchValue(us, rs, src) == [kind |-> "value", urls |-> us, results |-> rs, source |-> src]
SearchThrow == [kind |-> "throw", urls |-> <<>>, results |-> <<>>, source |-> "none"]

\* the per-query catch block rethrowing instead of logging
OnQueryError_Propagates == "rethrown"

\* the catch block inside the query loop logs the error and lets the loop go on
OnQueryError == "caught"

\* a Set built from the array and spread back, with every occurrence kept
UniqueInOrder_KeepAll(s) == s

\* [...new Set(s)]: the first occurrence of each value, in order
UniqueInOrder(s) ==
  LET first == {i \in DOMAIN s : \A j \in 1..(i - 1) : s[j] # s[i]}
      F[n \in 0..Len(s)] ==
        IF n = 0 THEN <<>>
        ELSE IF n \in first THEN Append(F[n - 1], s[n]) ELSE F[n - 1]
  IN  F[Len(s)]

\* the object a single-provider search returns
ProviderResult(p) ==
  SearchValue([k \in DOMAIN allResults[p] |-> allResults[p][k].url], allResults[p], p)

\* what searchDualEngine takes from a settled promise
SettledValue(p) ==
  IF pstate[p] = "fulfilled" THEN ProviderResult(p) ELSE SearchValue(<<>>, <<>>, p)

\* the number of queries the loop of a provider runs over
Consulted == Min(Len(queries), QueryCap)

InitSearch ==
  /\ searchMode \in {"exa", "tavily", "dual"}
  /\ queries \in QueryLists
  /\ clients \in [Providers -> BOOLEAN]
  /\ pstate = [p \in Providers |-> "idle"]
  /\ allResults = [p \in Providers |-> <<>>]
  /\ answers = [p \in Providers |-> <<>>]
  /\ searchResult = NoSearchResult
  /\ srpc = "call"
  /\ delayedMs = [p \in Providers |-> 0]

\* searchExaOnly / searchTavilyOnly called directly: throws without a client
SearchSingle ==
  /\ srpc = "call"
  /\ searchMode \in Providers
  /\ IF clients[searchMode]
       THEN /\ pstate' = [pstate EXCEPT ![searchMode] = "query"]
            /\ srpc' = "running"
            /\ UNCHANGED searchResult
       ELSE /\ searchResult' = SearchThrow
            /\ srpc' = "returned"
            /\ UNCHANGED pstate
  /\ UNCHANGED <<searchMode, queries, clients, allResults, answers, delayedMs>>

\* searchDualEngine: a configured provider is started, the other resolves empty
SearchDualEngine ==
  /\ srpc = "call"
  /\ searchMode = "dual"
  /\ pstate' = [p \in Providers |-> IF clients[p] THEN "query" ELSE "fulfilled"]
  /\ srpc' = "running"
  /\ UNCHANGED <<searchMode, queries, clients, allResults, answers, searchResult, delayedMs>>

\* one query of the loop answered: its results are pushed, then the delay starts
QueryReturns(p) ==
  /\ srpc = "running"
  /\ pstate[p] = "query"
  /\ Len(answers[p]) < Consulted
  /\ \E hits \in HitLists :
       /\ allResults' = [allResults EXCEPT ![p] = @ \o formattedResults(hits, p)]
       /\ answers' = [answers EXCEPT ![p] = Append(@, QueryAnswered(hits))]
  /\ pstate' = [pstate EXCEPT ![p] = "delay"]
  /\ delayedMs' = [delayedMs EXCEPT ![p] = 0]
  /\ UNCHANGED <<searchMode, queries, clients, searchResult, srpc>>

\* one query of the loop failed: nothing is pushed and no delay is taken
QueryFails(p) ==
  /\ srpc = "running"
  /\ pstate[p] = "query"
  /\ Len(answers[p]) < Consulted
  /\ answers' = [answers EXCEPT ![p] = Append(@, QueryFailed)]
  /\ IF OnQueryError = "caught"
       THEN UNCHANGED <<pstate, searchResult, srpc>>
       ELSE /\ pstate' = [pstate EXCEPT ![p] = "rejected"]
            /\ IF searchMode = p
                 THEN searchResult' = SearchThrow /\ srpc' = "returned"
                 ELSE UNCHANGED <<searchResult, srpc>>
  /\ delayedMs' = [delayedMs EXCEPT ![p] = 0]
  /\ UNCHANGED <<searchMode, queries, clients, allResults>>

\* the delay of a provider's loop: setTimeout(resolve, 200) in searchExaOnly,
\* setTimeout(resolve, 500) in searchTavilyOnly
ProviderDelayMs(p) == IF p = "exa" THEN 200 ELSE 500

\* the setTimeout after a successful query (200 ms for Exa, 500 ms for Tavily)
QueryDelay(p) ==
  /\ srpc = "running"
  /\ pstate[p] = "delay"
  /\ pstate' = [pstate EXCEPT ![p] = "query"]
  /\ delayedMs' = [delayedMs EXCEPT ![p] = @ + ProviderDelayMs(p)]
  /\ UNCHANGED <<searchMode, queries, clients, allResults, answers, searchResult, srpc>>

\* the loop of a provider is over: the single-provider search returns
ProviderReturns(p) ==
  /\ srpc = "running"
  /\ pstate[p] = "query"
  /\ Len(answers[p]) = Consulted
  /\ pstate' = [pstate EXCEPT ![p] = "fulfilled"]
  /\ IF searchMode = p
       THEN searchResult' = ProviderResult(p) /\ srpc' = "returned"
       ELSE UNCHANGED <<searchResult, srpc>>
  /\ UNCHANGED <<searchMode, queries, clients, allResults, answers, delayedMs>>

\* Promise.allSettled resolved: searchDualEngine merges and returns
DualReturns ==
  /\ srpc = "running"
  /\ searchMode = "dual"
  /\ \A p \in Providers : pstate[p] \in {"fulfilled", "rejected"}
  /\ LET exaResults == SettledValue("exa")
         tavilyResults == SettledValue("tavily")
         allUrls == exaResults.urls \o tavilyResults.urls
         uniqueUrls == UniqueInOrder(allUrls)
     IN  searchResult' = SearchValue(uniqueUrls,
                                     exaResults.results \o tavilyResults.results,
                                     "combined")
  /\ srpc' = "returned"
  /\ UNCHANGED <<searchMode, queries, clients, pstate, allResults, answers, delayedMs>>

----------------------------------------------------------------------------
\* getCachedKnowledgeBase, setupCompleteKnowledgeBase / setupFilteredKnowledgeBase
\* and fetchFilteredMarketData (market-data.ts)

\* CACHE_TTL = 30 * 60 * 1000 ms
CACHE_TTL == 1800000

\* delayMs, the wait before every page request, and the wait after a 429
DelayMs == 120
RateLimitDelayMs == 1000

\* the thresholds of the filtered set
MinMarketCap == 1000000
MinVolume == 10000

\* the page size asked for (per_page) and the longest upstream listing of the model
PerPage == 2
MaxListing == 5

\* the upstream record number i of the listing; market cap and volume run through
\* the cases at the thresholds, below the one and below the other
MarketRecord(i) ==
  [id |-> i,
   market_cap |-> CASE i % 4 = 1 -> MinMarketCap
                    [] i % 4 = 2 -> MinMarketCap - 1
                    [] OTHER -> 5 * MinMarketCap,
   total_volume |-> CASE i % 4 = 1 -> MinVolume
                      [] i % 4 = 3 -> MinVolume - 1
                      [] OTHER -> 5 * MinVolume]
Listings == {[i \in 1..n |-> MarketRecord(i)] : n \in 0..MaxListing}

\* the array the upstream holds for page p with per_page = PerPage
PageOf(listing, p) ==
  LET first == (p - 1) * PerPage + 1
      last == Min(p * PerPage, Len(listing))
  IN  IF first > last THEN <<>> ELSE SubSeq(listing, first, last)

\* the filter callbacks: market_cap >= minMarketCap && total_volume >= minVolume
Passes(rec, minMarketCap, minVolume) ==
  rec.market_cap >= minMarketCap /\ rec.total_volume >= minVolume

\* the filter callback letting every record through
FilterMarket_KeepAll(data, minMarketCap, minVolume) == data

\* data.filter(c => ...): the records that reach both thresholds, in order
FilterMarket(data, minMarketCap, minVolume) ==
  SelectSeq(data, LAMBDA rec : Passes(rec, minMarketCap, minVolume))

\* the thresholds fetchFilteredMarketData is called with: setupCompleteKnowledgeBase
\* passes 0 and 0, setupFilteredKnowledgeBase the thresholds of the filtered set
FetchMinMarketCap(kb) == IF kb = "complete" THEN 0 ELSE MinMarketCap
FetchMinVolume(kb) == IF kb = "complete" THEN 0 ELSE MinVolume

\* coin => ({ id, symbol, name }), the identifier standing for the three fields
toCoins(data) == [k \in DOMAIN data |-> data[k].id]

\* the value the setup function returns: { filtered, unfiltered } from
\* setupCompleteKnowledgeBase, the flat filtered list (unfiltered left empty here)
\* from setupFilteredKnowledgeBase
Snapshot(kb, marketData) ==
  IF kb = "complete"
    THEN [filtered |-> toCoins(FilterMarket(marketData, MinMarketCap, MinVolume)),
          unfiltered |-> toCoins(marketData)]
    ELSE [filtered |-> toCoins(marketData), unfiltered |-> <<>>]
NoSnapshot == [filtered |-> <<>>, unfiltered |-> <<>>]

\* the cache file: absent, not a parsable snapshot, or a snapshot written at mtime
FileAbsent == [kind |-> "absent", data |-> NoSnapshot, mtime |-> 0]
FileMalformed(t) == [kind |-> "malformed", data |-> NoSnapshot, mtime |-> t]
FileSnapshot(s, t) == [kind |-> "snapshot", data |-> s, mtime |-> t]
OldMtime == 1000
OldSnapshot(kb) == Snapshot(kb, <<MarketRecord(4), MarketRecord(8)>>)
Ages == {0, CACHE_TTL - 1, CACHE_TTL, CACHE_TTL + 1}

\* what a page request can fail with: a response status, or 0 for no response
ErrorStatuses == {429, 500, 0}
NoResponse == [page |-> 0, kind |-> "none", status |-> 0]
Response(p, k, st) == [page |-> p, kind |-> k, status |-> st]

\* the expiry test with >= in place of >
IsExpired_AtTTL(t, mtime) == t - mtime >= CACHE_TTL

\* the expiry test answering expired for every file
IsExpired_Always(t, mtime) == TRUE

\* isExpired = Date.now() - stats.mtime.getTime() > CACHE_TTL
IsExpired(t, mtime) == t - mtime > CACHE_TTL

\* the retry test taking every failure for a rate limit
IsRateLimit_Any(status) == TRUE

\* err.response?.status === 429
IsRateLimit(status) == status = 429

\* the retry moving on to the next page
PageAfterRateLimit_Next(p) == p + 1

\* `continue` in the catch block: the page number is left as it is
PageAfterRateLimit(p) == p

\* the try block of getCachedKnowledgeBase reaches `return cached`
CacheUsable(file, t) ==
  /\ file.kind # "absent"
  /\ ~IsExpired(t, file.mtime)
  /\ file.kind = "snapshot"

InitLoader ==
  /\ which \in {"complete", "filtered"}
  /\ apiKey \in BOOLEAN
  /\ upstream \in Listings
  /\ now \in {OldMtime + a : a \in Ages}
  /\ cacheFile \in {FileAbsent, FileMalformed(OldMtime),
                    FileSnapshot(OldSnapshot(which), OldMtime)}
  /\ fileAtCall = cacheFile
  /\ kpc = "call"
  /\ kbSource = "none"
  /\ page = 1
  /\ allMarketData = <<>>
  /\ pushed = <<>>
  /\ lastResponse = NoResponse
  /\ waited = 0
  /\ rateLimited = FALSE
  /\ stopReason = "none"
  /\ freshData = NoSnapshot
  /\ kbResult = [kind |-> "none", data |-> NoSnapshot]
  /\ calls = 1
  /\ fetchDoneAt = -1

loadConfig == <<which, apiKey, upstream, now, fileAtCall, calls>>

\* getCachedKnowledgeBase up to its first await on the upstream: the cached
\* snapshot is returned, or the setup function starts (process.exit(1) without key)
GetCachedKnowledgeBase ==
  /\ kpc = "call"
  /\ IF CacheUsable(cacheFile, now)
       THEN /\ kbResult' = [kind |-> "snapshot", data |-> cacheFile.data]
            /\ kbSource' = "cache"
            /\ kpc' = "returned"
            /\ UNCHANGED stopReason
       ELSE /\ kbSource' = "upstream"
            /\ kpc' = IF apiKey THEN "delay" ELSE "exited"
            /\ stopReason' = IF apiKey THEN "none" ELSE "nokey"
            /\ UNCHANGED kbResult
  /\ UNCHANGED <<loadConfig, fetchDoneAt, rateLimited, cacheFile, page, allMarketData, pushed, lastResponse,
                 waited, freshData>>

\* await this.delay(delayMs) at the top of the paging loop
PageDelay ==
  /\ kpc = "delay"
  /\ waited' = waited + DelayMs
  /\ kpc' = "request"
  /\ UNCHANGED <<loadConfig, fetchDoneAt, rateLimited, cacheFile, kbSource, page, allMarketData, pushed,
                 lastResponse, stopReason, freshData, kbResult>>

\* the page arrives as an array: its filtered records are pushed; a page shorter
\* than per_page (or empty) ends the fetch and the setup function returns
PageArrives ==
  /\ kpc = "request"
  /\ LET data == PageOf(upstream, page)
         filtered == FilterMarket(data, FetchMinMarketCap(which), FetchMinVolume(which))
         more == IF Len(data) = 0 THEN allMarketData ELSE allMarketData \o filtered
     IN  /\ lastResponse' = Response(page, "array", 200)
         /\ allMarketData' = more
         /\ pushed' = IF Len(data) = 0 THEN pushed ELSE Append(pushed, page)
         /\ IF Len(data) = 0 \/ Len(data) < PerPage
              THEN /\ stopReason' = "short"
                   /\ freshData' = Snapshot(which, more)
                   /\ kpc' = "write"
                   /\ UNCHANGED page
              ELSE /\ page' = page + 1
                   /\ kpc' = "delay"
                   /\ UNCHANGED <<stopReason, freshData>>
  /\ waited' = 0
  /\ UNCHANGED <<loadConfig, fetchDoneAt, rateLimited, cacheFile, kbSource, kbResult>>

\* the response body is not an array: the loop breaks with what was pushed so far
PageNotArray ==
  /\ kpc = "request"
  /\ lastResponse' = Response(page, "notArray", 200)
  /\ stopReason' = "notArray"
  /\ freshData' = Snapshot(which, allMarketData)
  /\ kpc' = "write"
  /\ waited' = 0
  /\ UNCHANGED <<loadConfig, fetchDoneAt, rateLimited, cacheFile, kbSource, page, allMarketData, pushed, kbResult>>

\* the request fails with status 429: warn, then wait and `continue`
PageRateLimited ==
  /\ kpc = "request"
  /\ \E status \in ErrorStatuses :
       /\ IsRateLimit(status)
       /\ lastResponse' = Response(page, "failed", status)
  /\ page' = PageAfterRateLimit(page)
  /\ rateLimited' = TRUE
  /\ kpc' = "backoff"
  /\ waited' = 0
  /\ UNCHANGED <<loadConfig, fetchDoneAt, cacheFile, kbSource, allMarketData, pushed, stopReason,
                 freshData, kbResult>>

\* await this.delay(1000) in the catch block
RateLimitDelay ==
  /\ kpc = "backoff"
  /\ waited' = waited + RateLimitDelayMs
  /\ kpc' = "delay"
  /\ UNCHANGED <<loadConfig, fetchDoneAt, rateLimited, cacheFile, kbSource, page, allMarketData, pushed,
                 lastResponse, stopReason, freshData, kbResult>>

\* the request fails otherwise: the error is rethrown, caught by the setup
\* function, and process.exit(1) ends the process
PageFails ==
  /\ kpc = "request"
  /\ \E status \in ErrorStatuses :
       /\ ~IsRateLimit(status)
       /\ lastResponse' = Response(page, "failed", status)
  /\ stopReason' = "error"
  /\ kpc' = "exited"
  /\ waited' = 0
  /\ UNCHANGED <<loadConfig, fetchDoneAt, rateLimited, cacheFile, kbSource, page, allMarketData, pushed,
                 freshData, kbResult>>

\* fs.writeFile succeeds, then freshData is returned
WriteCache ==
  /\ kpc = "write"
  /\ cacheFile' = FileSnapshot(freshData, now)
  /\ kbResult' = [kind |-> "snapshot", data |-> freshData]
  /\ fetchDoneAt' = now
  /\ kpc' = "returned"
  /\ UNCHANGED <<loadConfig, rateLimited, kbSource, page, allMarketData, pushed, lastResponse,
                 waited, stopReason, freshData>>

\* fs.writeFile fails: a warning, and freshData is returned all the same
WriteCacheFails ==
  /\ kpc = "write"
  /\ kbResult' = [kind |-> "snapshot", data |-> freshData]
  /\ fetchDoneAt' = now
  /\ kpc' = "returned"
  /\ UNCHANGED <<loadConfig, rateLimited, cacheFile, kbSource, page, allMarketData, pushed,
                 lastResponse, waited, stopReason, freshData>>

\* the gaps between the return of one call and the next call on the same path
CallGaps == {60000, CACHE_TTL + 1}

\* the largest number of calls in a run of the model
MaxCalls == 2

\* a later, non-overlapping getCachedKnowledgeBase call: a new run of the pipeline
\* against the same cache path, with fresh locals
GetCachedKnowledgeBaseAgain ==
  /\ kpc = "returned"
  /\ calls < MaxCalls
  /\ \E gap \in CallGaps : now' = now + gap
  /\ calls' = calls + 1
  /\ fileAtCall' = cacheFile
  /\ kpc' = "call"
  /\ kbSource' = "none"
  /\ page' = 1
  /\ allMarketData' = <<>>
  /\ pushed' = <<>>
  /\ lastResponse' = NoResponse
  /\ waited' = 0
  /\ rateLimited' = FALSE
  /\ stopReason' = "none"
  /\ freshData' = NoSnapshot
  /\ kbResult' = [kind |-> "none", data |-> NoSnapshot]
  /\ UNCHANGED <<which, apiKey, upstream, cacheFile, fetchDoneAt>>

\* the record the upstream holds under identifier i: the records the matcher is
\* exercised with, then records named after their number
CoinRecord(i) ==
  CASE i = 1 -> Asset_Bitcoin
    [] i = 2 -> Asset_BitDAO
    [] i = 3 -> Asset_Ethereum
    [] i = 4 -> Asset_WrappedBitcoin
    [] OTHER -> [id |-> <<99, 48 + i>>, symbol |-> <<99, 48 + i>>, name |-> <<67, 48 + i>>]

\* the calls made on a service whose knowledge base was loaded: token lists that
\* name records on both sides of the thresholds, and the queries
ServiceCalls ==
  {TokensCall(t) : t \in {<<>>, <<Tok_bit>>, <<Tok_eth>>, <<Tok_bit, Tok_bit>>,
                          <<Tok_bit, Tok_eth>>, <<Tok_BTC, Tok_eth>>}}
    \cup {QueryCall(q) : q \in Queries}

\* MarketDataService.setupKnowledgeBase: this.knowledgeBase = await
\* getCachedKnowledgeBase(); the first half of market-data.ts keeps the complete
\* snapshot and matches with the binary classifier, the second half keeps the
\* filtered list and matches with the percentage classifier. The call made on
\* the service afterwards is chosen here.
SetupKnowledgeBase ==
  /\ kpc = "returned"
  /\ rpc = "idle"
  /\ knowledgeBase' = [k \in DOMAIN kbResult.data.filtered |->
                         CoinRecord(kbResult.data.filtered[k])]
  /\ variant' = IF which = "complete" THEN "binary" ELSE "percentage"
  /\ \E c \in ServiceCalls : call' = c
  /\ rpc' = "start"
  /\ UNCHANGED <<potentialTokens, bindings, llmCalls, llmOutcome, llmResult, result>>

----------------------------------------------------------------------------
\* batchProcessWithRateLimit (src/src/utils/index.ts)

MaxItems == 3
MaxBatchSize == 2
MaxRetryLimit == 1

Str_rate == <<114, 97, 116, 101>>  \* 'rate'
Str_limit == <<108, 105, 109, 105, 116>>  \* 'limit'

\* what an invocation of the operation can reject with: err.response.status
\* (0: the error carries no response) and err.message
NoError == [status |-> -1, message |-> <<>>]
Err_Status429 == [status |-> 429, message |-> <<>>]
\* 'Rate-Limit hit'
Err_RateLimitMessage ==
  [status |-> 0, message |-> <<82, 97, 116, 101, 45, 76, 105, 109, 105, 116, 32, 104, 105, 116>>]
\* 'rate  limit' with two characters between the words: the pattern allows one
Err_NearMiss ==
  [status |-> 500, message |-> <<114, 97, 116, 101, 32, 32, 108, 105, 109, 105, 116>>]
\* 'timeout'
Err_Timeout == [status |-> 0, message |-> <<116, 105, 109, 101, 111, 117, 116>>]
ErrorPool == {Err_Status429, Err_RateLimitMessage, Err_NearMiss, Err_Timeout}

\* /rate.?limit/i.test(message): 'rate', at most one character other than a
\* line terminator, 'limit', letters compared without case
TestRateLimit(message) ==
  LET low == toLowerCase(message)
  IN \E p \in 1..Len(low) :
       /\ OccursAt(low, Str_rate, p)
       /\ \/ OccursAt(low, Str_limit, p + 4)
          \/ /\ p + 4 <= Len(low)
             /\ low[p + 4] \notin {10, 13}
             /\ OccursAt(low, Str_limit, p + 5)

\* every failure is taken for a rate limit
IsRateLimitError_Always(err) == TRUE

\* the condition of the catch block
IsRateLimitError(err) == err.status = 429 \/ TestRateLimit(err.message)

\* one retry too many: attempt <= maxRetries
CanRetry_Inclusive(att, limit) == att <= limit

\* attempt < maxRetries
CanRetry(att, limit) == att < limit

\* a slice that runs to the end of the items
BatchOf_ToEnd(i, size, n) == (i + 1)..n

\* items.slice(i, i + batchSize), as the 1-based positions of the items
BatchOf(i, size, n) == (i + 1)..Min(i + size, n)

\* a pause after every batch, the last one included
PauseFollows_Always(i, size, n) == TRUE

\* i + batchSize < items.length
PauseFollows(i, size, n) == i + size < n

\* the calls made on the executor: the small ones with an operation that may do
\* anything on each invocation, and the run of ten items in batches of three
\* whose every fourth item is rate limited twice before it succeeds
BatchCalls ==
  {[n |-> n, batchSize |-> b, maxRetries |-> r, fn |-> "any", minDelayMs |-> 1000] :
     n \in 0..MaxItems, b \in 1..MaxBatchSize, r \in 0..MaxRetryLimit}
  \cup {[n |-> 10, batchSize |-> 3, maxRetries |-> 4, fn |-> "fourthFailsTwice",
          minDelayMs |-> 1000]}

\* the same calls, and calls with a batch size of 0
BatchCallsAnySize ==
  BatchCalls \cup
    {[n |-> n, batchSize |-> 0, maxRetries |-> r, fn |-> "any", minDelayMs |-> 1000] :
       n \in 0..MaxItems, r \in 0..MaxRetryLimit}

\* the pauses counter stops counting here
PauseCap == 4

\* a timer that fires after half its delay
PauseLength_Half(minDelayMs) == minDelayMs \div 2

\* setTimeout(res, minDelayMs): the time the pause takes, at the least
PauseLength(minDelayMs) == minDelayMs

\* whether the nth invocation of the operation on item k can fulfil
CanFulfil(f, k, nth) == f = "any" \/ ~(k % 4 = 0 /\ nth <= 2)

\* what the nth invocation of the operation on item k can reject with
Rejections(f, k, nth) ==
  IF f = "any" THEN ErrorPool
  ELSE IF k % 4 = 0 /\ nth <= 2 THEN {Err_Status429} ELSE {}

\* the value the mapper returns for an item: the operation's value (for item k,
\* the value k) or null
MapperNull == [isNull |-> TRUE, value |-> 0]
MapperValue(k) == [isNull |-> FALSE, value |-> k]

\* the values in the order of completion as far as it is recorded: the mapper
\* that returned last comes last
BatchResults_LastSettledLast(batch, st) ==
  LET others == batch \ {lastSettled}
      valueOf(k) == IF st[k] = "value" THEN MapperValue(k) ELSE MapperNull
  IN [j \in 1..Cardinality(others) |->
        valueOf(CHOOSE k \in others : Cardinality({m \in others : m < k}) = j - 1)]
     \o (IF lastSettled \in batch THEN <<valueOf(lastSettled)>> ELSE <<>>)

\* what Promise.all fulfils with: the mappers' values in the order of the batch
BatchResults(batch, st) ==
  [j \in 1..Cardinality(batch) |->
     LET k == Leftmost(batch) + j - 1
     IN IF st[k] = "value" THEN MapperValue(k) ELSE MapperNull]

\* nothing filtered out
NonNull_KeepAll(rs) == rs

\* batchResults.filter(r => r !== null)
NonNull(rs) == SelectSeq(rs, LAMBDA r : ~r.isNull)

Settled(k) == itemState[k] \in {"value", "dropped"}

InitBatchFrom(pool) ==
  /\ \E c \in pool : batchCall = c
  /\ bi = 0
  /\ bpc = "loop"
  /\ itemState = [k \in 1..batchCall.n |-> "pending"]
  /\ attempt = [k \in 1..batchCall.n |-> 0]
  /\ invocations = [k \in 1..batchCall.n |-> 0]
  /\ lastError = [k \in 1..batchCall.n |-> NoError]
  /\ batchOut = <<>>
  /\ pauses = 0
  /\ pausesSince = 0
  /\ pausedMs = 0
  /\ lastSettled = 0

InitBatch == InitBatchFrom(BatchCalls)

\* the loop takes the next batch: batch.map calls the mapper on every item, and
\* each mapper runs up to its first await, which invokes the operation
StartBatch ==
  /\ bpc = "loop"
  /\ bi < batchCall.n
  /\ LET batch == BatchOf(bi, batchCall.batchSize, batchCall.n)
     IN /\ itemState' = [k \in DOMAIN itemState |->
                           IF k \in batch THEN "running" ELSE itemState[k]]
        /\ invocations' = [k \in DOMAIN invocations |->
                             IF k \in batch THEN invocations[k] + 1 ELSE invocations[k]]
  /\ bpc' = "inflight"
  /\ UNCHANGED <<batchCall, bi, attempt, lastError, batchOut, pauses, pausesSince,
                 pausedMs, lastSettled>>

\* an invocation fulfils: the mapper returns its value
InvocationReturns(k) ==
  /\ bpc = "inflight"
  /\ itemState[k] = "running"
  /\ CanFulfil(batchCall.fn, k, invocations[k])
  /\ itemState' = [itemState EXCEPT ![k] = "value"]
  /\ lastSettled' = k
  /\ UNCHANGED <<batchCall, bi, bpc, attempt, invocations, lastError, batchOut, pauses,
                 pausesSince, pausedMs>>

\* an invocation rejects: the catch block either starts a backoff or returns null
InvocationFails(k) ==
  /\ bpc = "inflight"
  /\ itemState[k] = "running"
  /\ \E err \in Rejections(batchCall.fn, k, invocations[k]) :
       /\ lastError' = [lastError EXCEPT ![k] = err]
       /\ IF IsRateLimitError(err) /\ CanRetry(attempt[k], batchCall.maxRetries)
          THEN /\ attempt' = [attempt EXCEPT ![k] = attempt[k] + 1]
               /\ itemState' = [itemState EXCEPT ![k] = "waiting"]
               /\ lastSettled' = lastSettled
          ELSE /\ attempt' = attempt
               /\ itemState' = [itemState EXCEPT ![k] = "dropped"]
               /\ lastSettled' = k
  /\ UNCHANGED <<batchCall, bi, bpc, invocations, batchOut, pauses, pausesSince, pausedMs>>

\* the backoff timer fires: continue, the operation is invoked again
BackoffElapses(k) ==
  /\ bpc = "inflight"
  /\ itemState[k] = "waiting"
  /\ itemState' = [itemState EXCEPT ![k] = "running"]
  /\ invocations' = [invocations EXCEPT ![k] = invocations[k] + 1]
  /\ UNCHANGED <<batchCall, bi, bpc, attempt, lastError, batchOut, pauses, pausesSince,
                 pausedMs, lastSettled>>

\* Promise.all fulfils: the non-null results are pushed, and the loop either
\* pauses or moves on
BatchSettles ==
  /\ bpc = "inflight"
  /\ LET batch == BatchOf(bi, batchCall.batchSize, batchCall.n)
     IN /\ \A k \in batch : Settled(k)
        /\ batchOut' = batchOut \o NonNull(BatchResults(batch, itemState))
  /\ IF PauseFollows(bi, batchCall.batchSize, batchCall.n)
     THEN bpc' = "pause" /\ bi' = bi
     ELSE bpc' = "loop" /\ bi' = bi + batchCall.batchSize
  /\ pausesSince' = 0
  /\ pausedMs' = 0
  /\ UNCHANGED <<batchCall, itemState, attempt, invocations, lastError, pauses,
                 lastSettled>>

\* the minDelayMs timer fires: i += batchSize
PauseElapses ==
  /\ bpc = "pause"
  /\ pauses' = Min(pauses + 1, PauseCap)
  /\ pausesSince' = pausesSince + 1
  /\ pausedMs' = pausedMs + PauseLength(batchCall.minDelayMs)
  /\ bi' = bi + batchCall.batchSize
  /\ bpc' = "loop"
  /\ UNCHANGED <<batchCall, itemState, attempt, invocations, lastError, batchOut,
                 lastSettled>>

\* the loop condition fails: return results
BatchProcessReturns ==
  /\ bpc = "loop"
  /\ bi >= batchCall.n
  /\ bpc' = "returned"
  /\ UNCHANGED <<batchCall, bi, itemState, attempt, invocations, lastError, batchOut, pauses,
                 pausesSince, pausedMs, lastSettled>>

----------------------------------------------------------------------------
\* DateExtractor (src/src/utils/date-extractor.ts)
\*
\* Instants are counted in hours since the epoch (UTC), which keeps a day's 24
\* hours and the two years of isValidDate within TLC's integers.

HoursPerDay == 24
TwoYearsHours == 730 * HoursPerDay

\* the clocks new Date() can show: two instants of two days, at 12:00 and at
\* 00:00 UTC
Clocks == {20762 * HoursPerDay + 12, 20763 * HoursPerDay}

\* what a place of the page holds: nothing, a text that Date cannot parse, or a
\* text that denotes the instant `at`
Absent == [kind |-> "absent", at |-> 0]
Unparseable == [kind |-> "text", at |-> 0]
Instant(t) == [kind |-> "instant", at |-> t]

\* the instants a page can state, around the clock `c`: before the window,
\* inside it on its first day, two days ago, this very hour, later the same
\* day, and the next day
InstantsAround(c) ==
  {c - TwoYearsHours - HoursPerDay, c - TwoYearsHours + 1, c - 2 * HoursPerDay,
   c, c + 6, c + HoursPerDay + 6}
SourceValues(c) == {Absent, Unparseable} \cup {Instant(t) : t \in InstantsAround(c)}

\* a date in the URL path names a day: new Date('YYYY-MM-DD') is its 00:00 UTC
UrlValues(c) ==
  {Absent, Unparseable} \cup
    {Instant(t - (t % HoursPerDay)) : t \in InstantsAround(c)}

\* the selectors list, shortened to MaxSelectors selectors kept in its order
MaxSelectors == 2

\* the strings parseDate returns: null, or 'YYYY-MM-DD' as the number of its day
NullDate == [kind |-> "null", day |-> 0]
DayString(d) == [kind |-> "day", day |-> d]

\* parseDate: new Date(text), null when it is NaN, else
\* toISOString().split('T')[0], the UTC day of the instant
parseDate(v) ==
  IF v.kind # "instant" THEN NullDate ELSE DayString(v.at \div HoursPerDay)

\* new Date('YYYY-MM-DD'): 00:00 UTC of the day
InstantOfDay(d) == d * HoursPerDay

\* isValidDate: twoYearsAgo <= date <= now, date being the day string parsed
isValidDate(s, c) ==
  /\ InstantOfDay(s.day) >= c - TwoYearsHours
  /\ InstantOfDay(s.day) <= c

\* trySelector / extractFromJsonLd / extractFromUrl: an absent place gives null,
\* any other its text through parseDate
tryPlace(v) == IF v.kind = "absent" THEN NullDate ELSE parseDate(v)

\* `result && this.isValidDate(result)`
Wins(v, c) == tryPlace(v) # NullDate /\ isValidDate(tryPlace(v), c)

InitDate ==
  /\ clock \in Clocks
  /\ selectorValues \in [1..MaxSelectors -> SourceValues(clock)]
  /\ jsonLdValue \in SourceValues(clock)
  /\ urlValue \in UrlValues(clock)
  /\ selector = 1
  /\ dpc = "selectors"
  /\ publishedDate = NullDate
  /\ dateMethod = "none"

\* the selector in turn gives a valid date: return result
SelectorWins ==
  /\ dpc = "selectors"
  /\ selector <= MaxSelectors
  /\ Wins(selectorValues[selector], clock)
  /\ publishedDate' = tryPlace(selectorValues[selector])
  /\ dateMethod' = "selector"
  /\ dpc' = "returned"
  /\ UNCHANGED <<clock, selectorValues, jsonLdValue, urlValue, selector>>

\* the selector in turn gives nothing valid: the next one is tried
SelectorSkipped ==
  /\ dpc = "selectors"
  /\ selector <= MaxSelectors
  /\ ~Wins(selectorValues[selector], clock)
  /\ selector' = selector + 1
  /\ UNCHANGED <<clock, selectorValues, jsonLdValue, urlValue, dpc, publishedDate,
                 dateMethod>>

\* the selectors are exhausted: extractFromJsonLd, valid or not
JsonLdTried ==
  /\ dpc = "selectors"
  /\ selector > MaxSelectors
  /\ IF Wins(jsonLdValue, clock)
     THEN /\ publishedDate' = tryPlace(jsonLdValue)
          /\ dateMethod' = "jsonLd"
          /\ dpc' = "returned"
     ELSE /\ dpc' = "url"
          /\ UNCHANGED <<publishedDate, dateMethod>>
  /\ UNCHANGED <<clock, selectorValues, jsonLdValue, urlValue, selector>>

\* extractFromUrl, and the return of its date or of null
UrlTried ==
  /\ dpc = "url"
  /\ IF Wins(urlValue, clock)
     THEN /\ publishedDate' = tryPlace(urlValue)
          /\ dateMethod' = "url"
     ELSE UNCHANGED <<publishedDate, dateMethod>>
  /\ dpc' = "returned"
  /\ UNCHANGED <<clock, selectorValues, jsonLdValue, urlValue, selector>>

----------------------------------------------------------------------------
\* main (src/src/index.ts)

MaxPipelineUrls == 2

\* what SEARCH_ENGINE / argv[3] can hold ("" when neither is given)
SearchEngineSettings == {"", "exa", "tavily", "dual", "bing"}

\* lines 136-140: the default, and 'dual' rewritten when Exa is not enabled
EffectiveSearchEngine(exa, setting) ==
  LET chosen == IF setting = "" THEN "tavily" ELSE setting
  IN IF ~exa /\ chosen = "dual" THEN "tavily" ELSE chosen

\* the switch of lines 194-205: the SearchService method called
SearchMethodFor(engine) ==
  CASE engine = "exa" -> "exa"
    [] engine = "tavily" -> "tavily"
    [] OTHER -> "dual"

\* what fetchDetailedCoinData can return: {} (no assets, or its request
\* failed), records as the upstream sends them, or records of which one has no
\* symbol
AugmentedDataKinds == {"empty", "complete", "missingSymbol"}

\* createAnalysisPrompt evaluates coin.symbol.toUpperCase() for every record
PromptThrows(data) == data = "missingSymbol"

RunEnded == ppc \in {"returned", "rejected", "exited"}

InitPipeline ==
  /\ enableExa \in BOOLEAN
  /\ \E setting \in SearchEngineSettings :
       searchEngine = EffectiveSearchEngine(enableExa, setting)
  /\ ppc = "validate"
  /\ searchMethod = "none"
  /\ augmentedData = "none"
  /\ validation = "none"
  /\ detection = "none"
  /\ invoked = {}
  /\ consulted = {}

\* the query is taken for valid whatever the answer
AfterValidation_Continue(isValid) == "setup"

\* lines 152-155: `if (!validation.isValid) return`
AfterValidation(isValid) == IF isValid THEN "setup" ELSE "returned"

\* an error response is passed on like a list of assets
AfterDetection_Continue(outcome) == IF outcome = "throw" THEN "rejected" ELSE "synonyms"

\* lines 165-180: `if ('error' in detectionResult) return`; a throw of the
\* service rejects main
AfterDetection(outcome) ==
  CASE outcome = "assets" -> "synonyms"
    [] outcome = "error" -> "returned"
    [] OTHER -> "rejected"

\* whether the SearchService method has a client to query: searchExaOnly and
\* searchTavilyOnly throw without theirs, searchDualEngine skips a missing one
SearchThrows(method, keys) ==
  \/ method = "exa" /\ "exa" \notin keys
  \/ method = "tavily" /\ "tavily" \notin keys

\* the providers the called method issues its queries to (allQueries is never
\* empty: it starts with the sanitized query)
ProvidersQueried(method, keys) ==
  CASE method = "exa" -> keys \cap {"exa"}
    [] method = "tavily" -> keys \cap {"tavily"}
    [] OTHER -> keys

\* validateCryptoQuery answered: an invalid query ends the run
ValidateCryptoQuery ==
  /\ ppc = "validate"
  /\ invoked' = invoked \cup {"validate"}
  /\ \E isValid \in BOOLEAN :
       /\ validation' = IF isValid THEN "valid" ELSE "invalid"
       /\ ppc' = AfterValidation(isValid)
  /\ UNCHANGED <<enableExa, searchEngine, searchMethod, augmentedData, detection,
                 consulted, scrapeVars>>

\* marketDataService.setupKnowledgeBase(): the knowledge base is loaded, or the
\* failed load ends the process
MainSetupKnowledgeBase ==
  /\ ppc = "setup"
  /\ invoked' = invoked \cup {"setup"}
  /\ \E loaded \in BOOLEAN : ppc' = IF loaded THEN "detect" ELSE "exited"
  /\ UNCHANGED <<enableExa, searchEngine, searchMethod, augmentedData, validation,
                 detection, consulted, scrapeVars>>

\* marketDataService.retrieveCoinIDs: assets, an error response (the run
\* ends), or the throw on an empty knowledge base
MainRetrieveCoinIDs ==
  /\ ppc = "detect"
  /\ invoked' = invoked \cup {"detect"}
  /\ \E outcome \in {"assets", "error", "throw"} :
       /\ detection' = outcome
       /\ ppc' = AfterDetection(outcome)
  /\ UNCHANGED <<enableExa, searchEngine, searchMethod, augmentedData, validation,
                 consulted, scrapeVars>>

\* generateSynonyms answered (it catches its own failures)
GenerateSynonyms ==
  /\ ppc = "synonyms"
  /\ invoked' = invoked \cup {"synonyms"}
  /\ ppc' = "search"
  /\ UNCHANGED <<enableExa, searchEngine, searchMethod, augmentedData, validation,
                 detection, consulted, scrapeVars>>

\* new SearchService() with the clients whose API keys are configured; the
\* method of the switch answers with its URLs, or throws; then
\* new WebScraper() and scrapeMultiple(searchResults.urls.slice(0, 10))
MainSearch ==
  /\ ppc = "search"
  /\ searchMethod' = SearchMethodFor(searchEngine)
  /\ \E keys \in SUBSET Providers :
       /\ consulted' = ProvidersQueried(SearchMethodFor(searchEngine), keys)
       /\ IF SearchThrows(SearchMethodFor(searchEngine), keys)
          THEN /\ ppc' = "rejected"
               /\ invoked' = invoked \cup {"search"}
               /\ UNCHANGED scrapeVars
          ELSE /\ ppc' = "scrape"
               /\ invoked' = invoked \cup {"search", "scrape"}
               /\ \E n \in 0..MaxPipelineUrls : urls' = [i \in 1..n |-> i]
               /\ idx' = 1
               /\ spc' = "loop"
               /\ results' = <<>>
               /\ waitedMs' = 0
               /\ UNCHANGED <<axiosOutcome, pwOutcome, urlResult, browser, openBrowsers>>
  /\ UNCHANGED <<enableExa, searchEngine, augmentedData, validation, detection>>

\* scrapeMultiple resolved, scrapedContents is built; fetchDetailedCoinData
\* answered (it catches its own failures)
MainFetchDetailedCoinData ==
  /\ ppc = "scrape"
  /\ spc = "returned"
  /\ invoked' = invoked \cup {"details"}
  /\ \E data \in AugmentedDataKinds : augmentedData' = data
  /\ ppc' = "prompt"
  /\ UNCHANGED <<enableExa, searchEngine, searchMethod, validation, detection, consulted,
                 scrapeVars>>

\* createAnalysisPrompt: its throw rejects main
CreateAnalysisPrompt ==
  /\ ppc = "prompt"
  /\ invoked' = invoked \cup {"prompt"}
  /\ ppc' = IF PromptThrows(augmentedData) THEN "rejected" ELSE "analysis"
  /\ UNCHANGED <<enableExa, searchEngine, searchMethod, augmentedData, validation,
                 detection, consulted, scrapeVars>>

\* generateFinalAnalysis answered (it catches its own failures)
GenerateFinalAnalysis ==
  /\ ppc = "analysis"
  /\ invoked' = invoked \cup {"analysis"}
  /\ ppc' = "cleanup"
  /\ UNCHANGED <<enableExa, searchEngine, searchMethod, augmentedData, validation,
                 detection, consulted, scrapeVars>>

\* await webScraper.cleanup(), the last statement of main
MainCleanup ==
  /\ ppc = "cleanup"
  /\ Cleanup
  /\ invoked' = invoked \cup {"cleanup"}
  /\ ppc' = "returned"
  /\ UNCHANGED <<enableExa, searchEngine, searchMethod, augmentedData, validation,
                 detection, consulted, urls, idx, spc, results, axiosOutcome, pwOutcome,
                 urlResult, waitedMs>>

----------------------------------------------------------------------------
\* One WebScraper instance whose scrapeUrl is called several times, the calls
\* overlapping as their awaits allow

ScrapeCalls == 1..MaxScrapeCalls

InitInstance ==
  /\ callPc = [c \in ScrapeCalls |-> "idle"]
  /\ browserRef = 0
  /\ liveBrowsers = {}
  /\ pageOn = [c \in ScrapeCalls |-> 0]
  /\ pageOpen = [c \in ScrapeCalls |-> FALSE]
  /\ launches = 0

\* scrapeUrl(url) is called: tryAxiosMethod runs up to its await of axios.get
ScrapeUrl(c) ==
  /\ callPc[c] = "idle"
  /\ callPc' = [callPc EXCEPT ![c] = "axios"]
  /\ UNCHANGED <<browserRef, liveBrowsers, pageOn, pageOpen, launches>>

\* tryAxiosMethod settles. With a document, or with a throw, scrapeUrl returns.
\* With null, tryPlaywrightMethod runs up to its first await: chromium.launch
\* when `!this.browser`, else this.browser.newPage
AxiosSettles(c) ==
  /\ callPc[c] = "axios"
  /\ \/ /\ callPc' = [callPc EXCEPT ![c] = "returned"]
        /\ UNCHANGED pageOn
     \/ /\ AfterAxiosResult(Null) = "playwright"
        /\ IF browserRef = 0
           THEN /\ callPc' = [callPc EXCEPT ![c] = "launch"]
                /\ UNCHANGED pageOn
           ELSE /\ callPc' = [callPc EXCEPT ![c] = "newPage"]
                /\ pageOn' = [pageOn EXCEPT ![c] = browserRef]
  /\ UNCHANGED <<browserRef, liveBrowsers, pageOpen, launches>>

\* chromium.launch settles: the new browser is assigned to this.browser and
\* newPage is called on it; a rejection ends the attempt
LaunchSettles(c) ==
  /\ callPc[c] = "launch"
  /\ \/ /\ browserRef' = c
        /\ liveBrowsers' = liveBrowsers \cup {c}
        /\ launches' = launches + 1
        /\ pageOn' = [pageOn EXCEPT ![c] = c]
        /\ callPc' = [callPc EXCEPT ![c] = "newPage"]
     \/ /\ callPc' = [callPc EXCEPT ![c] = "returned"]
        /\ UNCHANGED <<browserRef, liveBrowsers, launches, pageOn>>
  /\ UNCHANGED pageOpen

\* newPage settles: the page is open and page.goto is called; a rejection ends
\* the attempt
NewPageSettles(c) ==
  /\ callPc[c] = "newPage"
  /\ \/ /\ pageOpen' = [pageOpen EXCEPT ![c] = TRUE]
        /\ callPc' = [callPc EXCEPT ![c] = "goto"]
     \/ /\ callPc' = [callPc EXCEPT ![c] = "returned"]
        /\ UNCHANGED pageOpen
  /\ UNCHANGED <<browserRef, liveBrowsers, pageOn, launches>>

\* page.goto settles: page.content is called; a rejection goes to the catch,
\* which rethrows, and scrapeUrl returns null
GotoSettles(c) ==
  /\ callPc[c] = "goto"
  /\ \/ callPc' = [callPc EXCEPT ![c] = "content"]
     \/ callPc' = [callPc EXCEPT ![c] = "returned"]
  /\ UNCHANGED <<browserRef, liveBrowsers, pageOn, pageOpen, launches>>

\* page.content settles: page.close is called; a rejection goes to the catch
ContentSettles(c) ==
  /\ callPc[c] = "content"
  /\ \/ callPc' = [callPc EXCEPT ![c] = "close"]
     \/ callPc' = [callPc EXCEPT ![c] = "returned"]
  /\ UNCHANGED <<browserRef, liveBrowsers, pageOn, pageOpen, launches>>

\* page.close resolves, extractContent runs and scrapeUrl returns
PageClosed(c) ==
  /\ callPc[c] = "close"
  /\ pageOpen' = [pageOpen EXCEPT ![c] = FALSE]
  /\ callPc' = [callPc EXCEPT ![c] = "returned"]
  /\ UNCHANGED <<browserRef, liveBrowsers, pageOn, launches>>

\* cleanup(), called with no scrapeUrl call in flight: the browser in
\* this.browser is closed, its pages with it, and the field is cleared
CleanupInstance ==
  /\ \A c \in ScrapeCalls : callPc[c] \in {"idle", "returned"}
  /\ browserRef # 0
  /\ liveBrowsers' = liveBrowsers \ {browserRef}
  /\ pageOpen' = [c \in ScrapeCalls |-> pageOpen[c] /\ pageOn[c] # browserRef]
  /\ browserRef' = 0
  /\ launches' = 0
  /\ UNCHANGED <<callPc, pageOn>>

----------------------------------------------------------------------------
\* PersistenceMemory

MemKeys == {"k1", "k2"}
MemValues == {"v1", "v2"}
Undefined == "undefined"

\* the values of this.data: per key a value, or undefined when the key is absent
MemoryDatas == [MemKeys -> MemValues \cup {Undefined}]
EmptyData == [k \in MemKeys |-> Undefined]

\* the file at filePath: not there, or the JSON text of a MemoryData
FileMissing == [exists |-> FALSE, data |-> EmptyData]
FileWith(data) == [exists |-> TRUE, data |-> data]
FileContents == {FileWith(d) : d \in MemoryDatas} \cup {FileMissing}

\* get(key, defaultValue): this.data[key] ?? defaultValue
get(key, defaultValue) == IF memData[key] # Undefined THEN memData[key] ELSE defaultValue

\* loadFromDisk after readFile settled: the parsed content, or {} when the
\* read or the parse threw
Loaded(content) == IF content.exists THEN content.data ELSE EmptyData

\* new PersistenceMemory(filePath): data = {}, and loadFromDisk is started
\* without being awaited
InitMemory ==
  /\ memData = EmptyData
  /\ diskFile \in FileContents
  /\ loadPc = "pending"
  /\ pendingSaves = {}
  /\ lastSet = [k \in MemKeys |-> Undefined]
  /\ memOps = 0

\* saveToDisk(): writeFile is called with JSON.stringify(this.data) and is not awaited
SaveStarted(data) == pendingSaves' = pendingSaves \cup {data}

\* set(key, value)
Set(key, value) ==
  /\ memOps < MaxMemoryOps
  /\ memOps' = memOps + 1
  /\ memData' = [memData EXCEPT ![key] = value]
  /\ SaveStarted(memData')
  /\ lastSet' = [lastSet EXCEPT ![key] = value]
  /\ UNCHANGED <<diskFile, loadPc>>

\* remove(key)
Remove(key) ==
  /\ memOps < MaxMemoryOps
  /\ memOps' = memOps + 1
  /\ IF memData[key] # Undefined
     THEN /\ memData' = [memData EXCEPT ![key] = Undefined]
          /\ SaveStarted(memData')
     ELSE UNCHANGED <<memData, pendingSaves>>
  /\ lastSet' = [lastSet EXCEPT ![key] = Undefined]
  /\ UNCHANGED <<diskFile, loadPc>>

\* clear()
Clear ==
  /\ memOps < MaxMemoryOps
  /\ memOps' = memOps + 1
  /\ memData' = EmptyData
  /\ SaveStarted(memData')
  /\ lastSet' = [k \in MemKeys |-> Undefined]
  /\ UNCHANGED <<diskFile, loadPc>>

\* the readFile of the constructor's loadFromDisk settles: this.data is
\* assigned the parsed content of the file as it is now, or {} when the read
\* or the parse throws
LoadSettles ==
  /\ loadPc = "pending"
  /\ loadPc' = "done"
  /\ \E content \in {diskFile, FileMissing} : memData' = Loaded(content)
  /\ UNCHANGED <<diskFile, pendingSaves, lastSet, memOps>>

\* a writeFile of saveToDisk settles: the file holds the data it was given,
\* or the write failed, which the catch swallows
SaveSettles(data) ==
  /\ data \in pendingSaves
  /\ pendingSaves' = pendingSaves \ {data}
  /\ \/ diskFile' = FileWith(data)
     \/ UNCHANGED diskFile
  /\ UNCHANGED <<memData, loadPc, lastSet, memOps>>

----------------------------------------------------------------------------
\* Specifications

\* the resolver at rest, while the scraper runs
ResolverIdle ==
  /\ variant = "binary"
  /\ call = TokensCall(<<>>)
  /\ knowledgeBase = <<>>
  /\ rpc = "idle"
  /\ potentialTokens = <<>>
  /\ bindings = <<>>
  /\ llmCalls = 0
  /\ llmOutcome = NoOutcome
  /\ llmResult = NoVerdict
  /\ result = NoResult

\* the scraper at rest, while the resolver runs
ScraperIdle ==
  /\ urls = <<>>
  /\ idx = 1
  /\ spc = "idle"
  /\ results = <<>>
  /\ axiosOutcome = [i \in UrlSlots |-> NotTried]
  /\ pwOutcome = [i \in UrlSlots |-> NotTried]
  /\ urlResult = [i \in UrlSlots |-> "pending"]
  /\ browser = "none"
  /\ openBrowsers = 0
  /\ waitedMs = 0

\* the search service at rest
SearchIdle ==
  /\ searchMode = "dual"
  /\ queries = <<>>
  /\ clients = [p \in Providers |-> FALSE]
  /\ pstate = [p \in Providers |-> "idle"]
  /\ allResults = [p \in Providers |-> <<>>]
  /\ answers = [p \in Providers |-> <<>>]
  /\ searchResult = NoSearchResult
  /\ srpc = "idle"
  /\ delayedMs = [p \in Providers |-> 0]

\* the knowledge-base loader at rest
LoaderIdle ==
  /\ which = "complete"
  /\ apiKey = FALSE
  /\ upstream = <<>>
  /\ now = 0
  /\ cacheFile = FileAbsent
  /\ fileAtCall = FileAbsent
  /\ kpc = "idle"
  /\ kbSource = "none"
  /\ page = 1
  /\ allMarketData = <<>>
  /\ pushed = <<>>
  /\ lastResponse = NoResponse
  /\ waited = 0
  /\ rateLimited = FALSE
  /\ stopReason = "none"
  /\ freshData = NoSnapshot
  /\ kbResult = [kind |-> "none", data |-> NoSnapshot]
  /\ calls = 0
  /\ fetchDoneAt = -1

\* the batch executor at rest
BatchIdle ==
  /\ batchCall = [n |-> 0, batchSize |-> 1, maxRetries |-> 0, fn |-> "any",
                  minDelayMs |-> 1000]
  /\ bi = 0
  /\ bpc = "idle"
  /\ itemState = <<>>
  /\ attempt = <<>>
  /\ invocations = <<>>
  /\ lastError = <<>>
  /\ batchOut = <<>>
  /\ pauses = 0
  /\ pausesSince = 0
  /\ pausedMs = 0
  /\ lastSettled = 0

\* the date extractor at rest
DateIdle ==
  /\ clock = 0
  /\ selectorValues = <<>>
  /\ jsonLdValue = Absent
  /\ urlValue = Absent
  /\ selector = 1
  /\ dpc = "idle"
  /\ publishedDate = NullDate
  /\ dateMethod = "none"

\* main not running
PipelineIdle ==
  /\ ppc = "idle"
  /\ enableExa = FALSE
  /\ searchEngine = "tavily"
  /\ searchMethod = "none"
  /\ augmentedData = "none"
  /\ validation = "none"
  /\ detection = "none"
  /\ invoked = {}
  /\ consulted = {}

\* no scrapeUrl call made outside scrapeMultiple
InstanceIdle ==
  /\ callPc = [c \in ScrapeCalls |-> "idle"]
  /\ browserRef = 0
  /\ liveBrowsers = {}
  /\ pageOn = [c \in ScrapeCalls |-> 0]
  /\ pageOpen = [c \in ScrapeCalls |-> FALSE]
  /\ launches = 0

\* no PersistenceMemory constructed
MemoryIdle ==
  /\ memData = EmptyData
  /\ diskFile = FileMissing
  /\ loadPc = "idle"
  /\ pendingSaves = {}
  /\ lastSet = [k \in MemKeys |-> Undefined]
  /\ memOps = 0

InitScrape ==
  /\ InitScraper
  /\ ResolverIdle /\ SearchIdle /\ LoaderIdle
  /\ BatchIdle /\ DateIdle /\ PipelineIdle /\ InstanceIdle /\ MemoryIdle
NextScrape ==
  \/ ScrapeNext /\ UNCHANGED <<resolveVars, searchVars, loadVars, batchVars, dateVars, pipeVars, instanceVars, memoryVars>>
  \/ AxiosFails /\ UNCHANGED <<resolveVars, searchVars, loadVars, batchVars, dateVars, pipeVars, instanceVars, memoryVars>>
  \/ AxiosReturns /\ UNCHANGED <<resolveVars, searchVars, loadVars, batchVars, dateVars, pipeVars, instanceVars, memoryVars>>
  \/ PlaywrightFails /\ UNCHANGED <<resolveVars, searchVars, loadVars, batchVars, dateVars, pipeVars, instanceVars, memoryVars>>
  \/ PlaywrightReturns /\ UNCHANGED <<resolveVars, searchVars, loadVars, batchVars, dateVars, pipeVars, instanceVars, memoryVars>>
  \/ Delay /\ UNCHANGED <<resolveVars, searchVars, loadVars, batchVars, dateVars, pipeVars, instanceVars, memoryVars>>
  \/ ScrapeMultipleReturns /\ UNCHANGED <<resolveVars, searchVars, loadVars, batchVars, dateVars, pipeVars, instanceVars, memoryVars>>
SpecScrape == InitScrape /\ [][NextScrape]_vars

InitResolve ==
  /\ InitResolver
  /\ ScraperIdle /\ SearchIdle /\ LoaderIdle
  /\ BatchIdle /\ DateIdle /\ PipelineIdle /\ InstanceIdle /\ MemoryIdle
NextResolve ==
  \/ RetrieveCoinIDs /\ UNCHANGED <<scrapeVars, searchVars, loadVars, batchVars, dateVars, pipeVars, instanceVars, memoryVars>>
  \/ ServiceRetrieveCoinIDs /\ UNCHANGED <<scrapeVars, searchVars, loadVars, batchVars, dateVars, pipeVars, instanceVars, memoryVars>>
  \/ ClassifierAnswers /\ UNCHANGED <<scrapeVars, searchVars, loadVars, batchVars, dateVars, pipeVars, instanceVars, memoryVars>>
  \/ ClassifierThrows /\ UNCHANGED <<scrapeVars, searchVars, loadVars, batchVars, dateVars, pipeVars, instanceVars, memoryVars>>
SpecResolve == InitResolve /\ [][NextResolve]_vars

InitSearching ==
  /\ InitSearch
  /\ ScraperIdle /\ ResolverIdle /\ LoaderIdle
  /\ BatchIdle /\ DateIdle /\ PipelineIdle /\ InstanceIdle /\ MemoryIdle
NextSearch ==
  \/ SearchSingle /\ UNCHANGED <<scrapeVars, resolveVars, loadVars, batchVars, dateVars, pipeVars, instanceVars, memoryVars>>
  \/ SearchDualEngine /\ UNCHANGED <<scrapeVars, resolveVars, loadVars, batchVars, dateVars, pipeVars, instanceVars, memoryVars>>
  \/ \E p \in Providers : QueryReturns(p) /\ UNCHANGED <<scrapeVars, resolveVars, loadVars, batchVars, dateVars, pipeVars, instanceVars, memoryVars>>
  \/ \E p \in Providers : QueryFails(p) /\ UNCHANGED <<scrapeVars, resolveVars, loadVars, batchVars, dateVars, pipeVars, instanceVars, memoryVars>>
  \/ \E p \in Providers : QueryDelay(p) /\ UNCHANGED <<scrapeVars, resolveVars, loadVars, batchVars, dateVars, pipeVars, instanceVars, memoryVars>>
  \/ \E p \in Providers : ProviderReturns(p) /\ UNCHANGED <<scrapeVars, resolveVars, loadVars, batchVars, dateVars, pipeVars, instanceVars, memoryVars>>
  \/ DualReturns /\ UNCHANGED <<scrapeVars, resolveVars, loadVars, batchVars, dateVars, pipeVars, instanceVars, memoryVars>>
SpecSearch == InitSearching /\ [][NextSearch]_vars

InitLoad ==
  /\ InitLoader
  /\ ScraperIdle /\ ResolverIdle /\ SearchIdle
  /\ BatchIdle /\ DateIdle /\ PipelineIdle /\ InstanceIdle /\ MemoryIdle
NextLoad ==
  \/ GetCachedKnowledgeBase /\ UNCHANGED <<scrapeVars, resolveVars, searchVars, batchVars, dateVars, pipeVars, instanceVars, memoryVars>>
  \/ PageDelay /\ UNCHANGED <<scrapeVars, resolveVars, searchVars, batchVars, dateVars, pipeVars, instanceVars, memoryVars>>
  \/ PageArrives /\ UNCHANGED <<scrapeVars, resolveVars, searchVars, batchVars, dateVars, pipeVars, instanceVars, memoryVars>>
  \/ PageNotArray /\ UNCHANGED <<scrapeVars, resolveVars, searchVars, batchVars, dateVars, pipeVars, instanceVars, memoryVars>>
  \/ PageRateLimited /\ UNCHANGED <<scrapeVars, resolveVars, searchVars, batchVars, dateVars, pipeVars, instanceVars, memoryVars>>
  \/ RateLimitDelay /\ UNCHANGED <<scrapeVars, resolveVars, searchVars, batchVars, dateVars, pipeVars, instanceVars, memoryVars>>
  \/ PageFails /\ UNCHANGED <<scrapeVars, resolveVars, searchVars, batchVars, dateVars, pipeVars, instanceVars, memoryVars>>
  \/ WriteCache /\ UNCHANGED <<scrapeVars, resolveVars, searchVars, batchVars, dateVars, pipeVars, instanceVars, memoryVars>>
  \/ WriteCacheFails /\ UNCHANGED <<scrapeVars, resolveVars, searchVars, batchVars, dateVars, pipeVars, instanceVars, memoryVars>>
  \/ GetCachedKnowledgeBaseAgain /\ UNCHANGED <<scrapeVars, resolveVars, searchVars, batchVars, dateVars, pipeVars, instanceVars, memoryVars>>
SpecLoad == InitLoad /\ [][NextLoad]_vars

\* the loader under a scheduler that keeps running it: a pending timer fires, an
\* awaited request is answered, a continuation is run
SpecLoadFair == InitLoad /\ [][NextLoad]_vars /\ WF_vars(NextLoad)

\* the service: the knowledge base is loaded from the upstream (no cache file),
\* then a resolution call is made against it
InitServe ==
  /\ InitLoader
  /\ cacheFile = FileAbsent
  /\ now = OldMtime
  /\ ScraperIdle /\ ResolverIdle /\ SearchIdle /\ BatchIdle /\ DateIdle /\ PipelineIdle /\ InstanceIdle /\ MemoryIdle
NextServe ==
  \/ GetCachedKnowledgeBase /\ UNCHANGED <<scrapeVars, resolveVars, searchVars, batchVars, dateVars, pipeVars, instanceVars, memoryVars>>
  \/ PageDelay /\ UNCHANGED <<scrapeVars, resolveVars, searchVars, batchVars, dateVars, pipeVars, instanceVars, memoryVars>>
  \/ PageArrives /\ UNCHANGED <<scrapeVars, resolveVars, searchVars, batchVars, dateVars, pipeVars, instanceVars, memoryVars>>
  \/ PageNotArray /\ UNCHANGED <<scrapeVars, resolveVars, searchVars, batchVars, dateVars, pipeVars, instanceVars, memoryVars>>
  \/ PageRateLimited /\ UNCHANGED <<scrapeVars, resolveVars, searchVars, batchVars, dateVars, pipeVars, instanceVars, memoryVars>>
  \/ RateLimitDelay /\ UNCHANGED <<scrapeVars, resolveVars, searchVars, batchVars, dateVars, pipeVars, instanceVars, memoryVars>>
  \/ PageFails /\ UNCHANGED <<scrapeVars, resolveVars, searchVars, batchVars, dateVars, pipeVars, instanceVars, memoryVars>>
  \/ WriteCache /\ UNCHANGED <<scrapeVars, resolveVars, searchVars, batchVars, dateVars, pipeVars, instanceVars, memoryVars>>
  \/ WriteCacheFails /\ UNCHANGED <<scrapeVars, resolveVars, searchVars, batchVars, dateVars, pipeVars, instanceVars, memoryVars>>
  \/ SetupKnowledgeBase /\ UNCHANGED <<scrapeVars, searchVars, loadVars, batchVars, dateVars, pipeVars, instanceVars, memoryVars>>
  \/ RetrieveCoinIDs /\ UNCHANGED <<scrapeVars, searchVars, loadVars, batchVars, dateVars, pipeVars, instanceVars, memoryVars>>
  \/ ServiceRetrieveCoinIDs /\ UNCHANGED <<scrapeVars, searchVars, loadVars, batchVars, dateVars, pipeVars, instanceVars, memoryVars>>
  \/ ClassifierAnswers /\ UNCHANGED <<scrapeVars, searchVars, loadVars, batchVars, dateVars, pipeVars, instanceVars, memoryVars>>
  \/ ClassifierThrows /\ UNCHANGED <<scrapeVars, searchVars, loadVars, batchVars, dateVars, pipeVars, instanceVars, memoryVars>>
SpecServe == InitServe /\ [][NextServe]_vars

\* the batch executor alone
InitBatching ==
  /\ InitBatch /\ ScraperIdle /\ ResolverIdle /\ SearchIdle
  /\ LoaderIdle /\ DateIdle /\ PipelineIdle /\ InstanceIdle /\ MemoryIdle
NextBatch ==
  \/ StartBatch /\ UNCHANGED <<scrapeVars, resolveVars, searchVars, loadVars, dateVars, pipeVars, instanceVars, memoryVars>>
  \/ \E k \in DOMAIN itemState : InvocationReturns(k) /\ UNCHANGED <<scrapeVars, resolveVars, searchVars, loadVars, dateVars, pipeVars, instanceVars, memoryVars>>
  \/ \E k \in DOMAIN itemState : InvocationFails(k) /\ UNCHANGED <<scrapeVars, resolveVars, searchVars, loadVars, dateVars, pipeVars, instanceVars, memoryVars>>
  \/ \E k \in DOMAIN itemState : BackoffElapses(k) /\ UNCHANGED <<scrapeVars, resolveVars, searchVars, loadVars, dateVars, pipeVars, instanceVars, memoryVars>>
  \/ BatchSettles /\ UNCHANGED <<scrapeVars, resolveVars, searchVars, loadVars, dateVars, pipeVars, instanceVars, memoryVars>>
  \/ PauseElapses /\ UNCHANGED <<scrapeVars, resolveVars, searchVars, loadVars, dateVars, pipeVars, instanceVars, memoryVars>>
  \/ BatchProcessReturns /\ UNCHANGED <<scrapeVars, resolveVars, searchVars, loadVars, dateVars, pipeVars, instanceVars, memoryVars>>
SpecBatch == InitBatching /\ [][NextBatch]_vars

\* the batch executor called with any batch size, under a scheduler that keeps
\* running it: timers fire, and every invocation of the operation ends
InitBatchingAnySize ==
  /\ InitBatchFrom(BatchCallsAnySize)
  /\ ScraperIdle /\ ResolverIdle /\ SearchIdle
  /\ LoaderIdle /\ DateIdle /\ PipelineIdle /\ InstanceIdle /\ MemoryIdle
SpecBatchFair == InitBatchingAnySize /\ [][NextBatch]_vars /\ WF_vars(NextBatch)

\* the date extraction of one page
InitDating ==
  InitDate /\ ScraperIdle /\ ResolverIdle /\ SearchIdle /\ LoaderIdle /\ BatchIdle /\ PipelineIdle /\ InstanceIdle /\ MemoryIdle
NextDate ==
  \/ SelectorWins /\ UNCHANGED <<scrapeVars, resolveVars, searchVars, loadVars, batchVars, pipeVars, instanceVars, memoryVars>>
  \/ SelectorSkipped /\ UNCHANGED <<scrapeVars, resolveVars, searchVars, loadVars, batchVars, pipeVars, instanceVars, memoryVars>>
  \/ JsonLdTried /\ UNCHANGED <<scrapeVars, resolveVars, searchVars, loadVars, batchVars, pipeVars, instanceVars, memoryVars>>
  \/ UrlTried /\ UNCHANGED <<scrapeVars, resolveVars, searchVars, loadVars, batchVars, pipeVars, instanceVars, memoryVars>>
SpecDate == InitDating /\ [][NextDate]_vars

\* one run of main, the scraper running inside it
InitMain ==
  /\ InitPipeline
  /\ ScraperIdle /\ ResolverIdle /\ SearchIdle /\ LoaderIdle /\ BatchIdle /\ DateIdle /\ InstanceIdle /\ MemoryIdle
NextMain ==
  \/ ValidateCryptoQuery /\ UNCHANGED <<resolveVars, searchVars, loadVars, batchVars, dateVars, instanceVars, memoryVars>>
  \/ MainSetupKnowledgeBase /\ UNCHANGED <<resolveVars, searchVars, loadVars, batchVars, dateVars, instanceVars, memoryVars>>
  \/ MainRetrieveCoinIDs /\ UNCHANGED <<resolveVars, searchVars, loadVars, batchVars, dateVars, instanceVars, memoryVars>>
  \/ GenerateSynonyms /\ UNCHANGED <<resolveVars, searchVars, loadVars, batchVars, dateVars, instanceVars, memoryVars>>
  \/ MainSearch /\ UNCHANGED <<resolveVars, searchVars, loadVars, batchVars, dateVars, instanceVars, memoryVars>>
  \/ ScrapeNext /\ UNCHANGED <<resolveVars, searchVars, loadVars, batchVars, dateVars, pipeVars, instanceVars, memoryVars>>
  \/ AxiosFails /\ UNCHANGED <<resolveVars, searchVars, loadVars, batchVars, dateVars, pipeVars, instanceVars, memoryVars>>
  \/ AxiosReturns /\ UNCHANGED <<resolveVars, searchVars, loadVars, batchVars, dateVars, pipeVars, instanceVars, memoryVars>>
  \/ PlaywrightFails /\ UNCHANGED <<resolveVars, searchVars, loadVars, batchVars, dateVars, pipeVars, instanceVars, memoryVars>>
  \/ PlaywrightReturns /\ UNCHANGED <<resolveVars, searchVars, loadVars, batchVars, dateVars, pipeVars, instanceVars, memoryVars>>
  \/ Delay /\ UNCHANGED <<resolveVars, searchVars, loadVars, batchVars, dateVars, pipeVars, instanceVars, memoryVars>>
  \/ ScrapeMultipleReturns /\ UNCHANGED <<resolveVars, searchVars, loadVars, batchVars, dateVars, pipeVars, instanceVars, memoryVars>>
  \/ MainFetchDetailedCoinData /\ UNCHANGED <<resolveVars, searchVars, loadVars, batchVars, dateVars, instanceVars, memoryVars>>
  \/ CreateAnalysisPrompt /\ UNCHANGED <<resolveVars, searchVars, loadVars, batchVars, dateVars, instanceVars, memoryVars>>
  \/ GenerateFinalAnalysis /\ UNCHANGED <<resolveVars, searchVars, loadVars, batchVars, dateVars, instanceVars, memoryVars>>
  \/ MainCleanup /\ UNCHANGED <<resolveVars, searchVars, loadVars, batchVars, dateVars, instanceVars, memoryVars>>
SpecMain == InitMain /\ [][NextMain]_vars

\* the calls of scrapeUrl on one instance
InitCalls ==
  /\ InitInstance
  /\ ScraperIdle /\ ResolverIdle /\ SearchIdle /\ LoaderIdle
  /\ BatchIdle /\ DateIdle /\ PipelineIdle /\ MemoryIdle
NextCalls ==
  \/ \E c \in ScrapeCalls : ScrapeUrl(c)
       /\ UNCHANGED <<scrapeVars, resolveVars, searchVars, loadVars, batchVars, dateVars, pipeVars, memoryVars>>
  \/ \E c \in ScrapeCalls : AxiosSettles(c)
       /\ UNCHANGED <<scrapeVars, resolveVars, searchVars, loadVars, batchVars, dateVars, pipeVars, memoryVars>>
  \/ \E c \in ScrapeCalls : LaunchSettles(c)
       /\ UNCHANGED <<scrapeVars, resolveVars, searchVars, loadVars, batchVars, dateVars, pipeVars, memoryVars>>
  \/ \E c \in ScrapeCalls : NewPageSettles(c)
       /\ UNCHANGED <<scrapeVars, resolveVars, searchVars, loadVars, batchVars, dateVars, pipeVars, memoryVars>>
  \/ \E c \in ScrapeCalls : GotoSettles(c)
       /\ UNCHANGED <<scrapeVars, resolveVars, searchVars, loadVars, batchVars, dateVars, pipeVars, memoryVars>>
  \/ \E c \in ScrapeCalls : ContentSettles(c)
       /\ UNCHANGED <<scrapeVars, resolveVars, searchVars, loadVars, batchVars, dateVars, pipeVars, memoryVars>>
  \/ \E c \in ScrapeCalls : PageClosed(c)
       /\ UNCHANGED <<scrapeVars, resolveVars, searchVars, loadVars, batchVars, dateVars, pipeVars, memoryVars>>
  \/ CleanupInstance
       /\ UNCHANGED <<scrapeVars, resolveVars, searchVars, loadVars, batchVars, dateVars, pipeVars, memoryVars>>
SpecCalls == InitCalls /\ [][NextCalls]_vars

\* one PersistenceMemory from its construction on
InitPersistence ==
  /\ InitMemory
  /\ ScraperIdle /\ ResolverIdle /\ SearchIdle /\ LoaderIdle
  /\ BatchIdle /\ DateIdle /\ PipelineIdle /\ InstanceIdle
NextPersistence ==
  \/ \E key \in MemKeys, value \in MemValues : Set(key, value)
       /\ UNCHANGED <<scrapeVars, resolveVars, searchVars, loadVars, batchVars, dateVars, pipeVars, instanceVars>>
  \/ \E key \in MemKeys : Remove(key)
       /\ UNCHANGED <<scrapeVars, resolveVars, searchVars, loadVars, batchVars, dateVars, pipeVars, instanceVars>>
  \/ Clear
       /\ UNCHANGED <<scrapeVars, resolveVars, searchVars, loadVars, batchVars, dateVars, pipeVars, instanceVars>>
  \/ LoadSettles
       /\ UNCHANGED <<scrapeVars, resolveVars, searchVars, loadVars, batchVars, dateVars, pipeVars, instanceVars>>
  \/ \E data \in MemoryDatas : SaveSettles(data)
       /\ UNCHANGED <<scrapeVars, resolveVars, searchVars, loadVars, batchVars, dateVars, pipeVars, instanceVars>>
SpecPersistence == InitPersistence /\ [][NextPersistence]_vars

----------------------------------------------------------------------------
\* Properties of WebScraper (checked under SpecScrape)

InResults(i) == \E k \in DOMAIN results : results[k].url = urls[i]

\* tryPlaywrightMethod was called for the URL at position i
PlaywrightAttempted(i) ==
  pwOutcome[i].kind # "none" \/ (spc = "playwright" /\ idx = i)

AxiosFailed(i) == axiosOutcome[i].kind \in FailureKinds
AxiosShortText(i) ==
  axiosOutcome[i].kind = "markup" /\ axiosOutcome[i].textLen < MinContentLength

\* C1: whenever the fast fetch of a URL failed (timeout, non-success status,
\* transport error) and scrapeUrl returned null for it, the heavy fetch had been
\* attempted for that URL.
C1_FallbackBeforeFailure ==
  \A i \in DOMAIN urls :
    (AxiosFailed(i) /\ urlResult[i] = "null") => PlaywrightAttempted(i)

\* C2 as stated: a URL whose fast fetch gave markup with fewer than 100
\* characters of text is failed without a heavy fetch, and is never in the output.
C2_ShortTextNoHeavyFetch ==
  \A i \in DOMAIN urls :
    AxiosShortText(i) => (~PlaywrightAttempted(i) /\ ~InResults(i))

\* C2 amended: for a URL whose fast fetch gave markup with fewer than 100
\* characters of text the heavy fetch is attempted, and once scrapeUrl has
\* returned the URL is in the output exactly when the heavy fetch gave markup
\* with at least 100 characters of text.
C2_ShortTextFallsBack ==
  \A i \in DOMAIN urls :
    AxiosShortText(i) =>
      /\ PlaywrightAttempted(i)
      /\ urlResult[i] # "pending" =>
           (InResults(i) <=> (pwOutcome[i].kind = "markup"
                              /\ pwOutcome[i].textLen >= MinContentLength))

\* a URL with 50 characters from the fast fetch that the heavy fetch put in the output
C2_Witness ==
  \E i \in DOMAIN urls :
    /\ axiosOutcome[i] = Markup(50)
    /\ pwOutcome[i].kind = "markup"
    /\ InResults(i)
    /\ spc = "returned"

----------------------------------------------------------------------------
\* Properties of retrieveCoinIDs (checked under SpecResolve)

matches == AssetsOf(bindings)
Answered == rpc = "done" /\ llmOutcome.kind = "response"
ClassifierThrew == rpc = "done" /\ llmOutcome.kind = "throw"
answerText == trim(llmOutcome.answer.text)

\* the ids bound before binding number k
BoundBefore(k) == {bindings[m].asset.id : m \in 1..(k - 1)}

\* the first of the records numbered in S whose id is not bound before binding
\* k; 0 when there is none
FirstUnbound(k, S) ==
  LET hits == {j \in S : knowledgeBase[j].id \notin BoundBefore(k)}
  IN  IF hits = {} THEN 0 ELSE Leftmost(hits)

\* C3: each bound token is bound to the first not-yet-bound record whose symbol
\* equals it; when there is none, to the first whose name equals it; and only
\* when there is none either, to the first whose name contains it.
C3_ExactBeforePartial ==
  \A k \in DOMAIN bindings :
    LET tok == toLowerCase(bindings[k].token)
        kb == knowledgeBase
        bySymbol == FirstUnbound(k, {j \in DOMAIN kb : toLowerCase(kb[j].symbol) = tok})
        byName == FirstUnbound(k, {j \in DOMAIN kb : toLowerCase(kb[j].name) = tok})
        byPart == FirstUnbound(k, {j \in DOMAIN kb :
                                     includes(toLowerCase(kb[j].name), tok) /\ Len(tok) > 2})
        want == IF bySymbol # 0 THEN bySymbol ELSE IF byName # 0 THEN byName ELSE byPart
    IN  want # 0 /\ bindings[k].asset = kb[want]

\* the answer signals rejection: the word INVALID (binary variant); DECISION:
\* INVALID or a confidence below 60 (percentage variant)
SignalsRejection ==
  /\ llmOutcome.answer.isString
  /\ IF variant = "binary"
     THEN includes(toUpperCase(answerText), Str_INVALID)
     ELSE \/ toUpperCase(decisionMatch(answerText)) = Str_INVALID
          \/ /\ confidenceMatch(answerText) # <<>>
             /\ parseInt(confidenceMatch(answerText)) < ConfidenceThreshold

\* C4: when a record is bound and the classifier's answer signals rejection, the
\* result is a rejection whose suggestions are the first min(3, n) bound records.
C4_RejectionCarriesSuggestions ==
  (Answered /\ SignalsRejection) =>
    /\ result.kind = "error"
    /\ result.hasSuggestions
    /\ result.suggestions = SubSeq(matches, 1, Min(SuggestionLimit, Len(matches)))

\* no decision can be parsed from the answer: it is no string, or it has neither
\* a CONFIDENCE nor a DECISION field (binary variant: neither word)
Unparsable ==
  \/ ~llmOutcome.answer.isString
  \/ IF variant = "binary"
     THEN ~includes(toUpperCase(answerText), Str_VALID)
     ELSE confidenceMatch(answerText) = <<>> /\ decisionMatch(answerText) = <<>>

ExactBinding == \E k \in DOMAIN bindings : bindings[k].kind \in {"exact-symbol", "exact-name"}

\* C6 as stated: when the classifier call throws, the resolution is accepted
\* exactly when some token was bound by an exact-symbol or exact-name match.
C6_FallbackAcceptsIffExactBinding ==
  ClassifierThrew => (result.kind = "list" <=> ExactBinding)

\* some token of the list equals, case-insensitively, the symbol or the name of
\* some bound record
TokenEqualsBoundRecord ==
  \E t \in DOMAIN potentialTokens : \E k \in DOMAIN bindings :
    LET tok == toLowerCase(potentialTokens[t])
    IN  tok = toLowerCase(bindings[k].asset.symbol) \/ tok = toLowerCase(bindings[k].asset.name)

\* C6 amended: when the classifier call throws, the resolution is accepted exactly
\* when some token of the list equals (case-insensitively) the symbol or name of
\* some bound record, whichever token that record was bound to; an exact binding
\* therefore always accepts, and a rejection carries no suggestions.
C6_FallbackAcceptsIffTokenEqualsRecord ==
  ClassifierThrew =>
    /\ result.kind = "list" <=> TokenEqualsBoundRecord
    /\ ExactBinding => result = Accepted(matches)
    /\ result.kind # "list" => (result.kind = "error" /\ ~result.hasSuggestions)

\* a throw accepted although the only binding is a partial-name one: "bit" binds
\* Bitcoin by its name, "bitcoin" finds it bound already, and equals its name
C6_Witness ==
  /\ ClassifierThrew
  /\ potentialTokens = <<Tok_bit, Tok_bitcoin>>
  /\ knowledgeBase = <<Asset_Bitcoin>>
  /\ bindings = <<[token |-> Tok_bit, asset |-> Asset_Bitcoin, kind |-> "partial-name"]>>
  /\ result = Accepted(<<Asset_Bitcoin>>)

\* the answer carries a confidence (a CONFIDENCE field is parsed from it)
CarriesConfidence ==
  llmOutcome.answer.isString /\ confidenceMatch(answerText) # <<>>

C8_NonEmptyListOrRejection ==
  (rpc = "done" /\ result.kind # "throw") =>
    \/ result.kind = "list" /\ Len(result.records) > 0
    \/ result.kind = "error" /\ result.error # ""

\* C9: when no token binds to any record, the result is the rejection with the
\* generic message and no suggestions, and the classifier is not invoked.
C9_NoBindingIsGenericRejection ==
  (rpc = "done" /\ result.kind # "throw" /\ Len(bindings) = 0) =>
    /\ result = Rejection(MsgGeneric, NoConfidence, FALSE, NoSuggestions)
    /\ llmCalls = 0

InKnowledgeBase(a) == \E j \in DOMAIN knowledgeBase : knowledgeBase[j] = a

\* C10: when the classifier accepts, the result is the sequence of records that
\* findTokenMatches bound, in binding order, each a record of the knowledge base;
\* the token "BTC" binds the record {bitcoin, btc, Bitcoin} by its symbol, and on
\* acceptance that record alone is the result.
C10_AcceptedReturnsBoundRecords ==
  /\ (Answered /\ llmResult.isValid) =>
       /\ result.kind = "list"
       /\ Len(result.records) = Len(bindings)
       /\ \A k \in DOMAIN bindings :
            result.records[k] = bindings[k].asset /\ InKnowledgeBase(result.records[k])
  /\ (rpc # "start" /\ potentialTokens = <<Tok_BTC>> /\ InKnowledgeBase(Asset_Bitcoin)) =>
       /\ bindings = <<[token |-> Tok_BTC, asset |-> Asset_Bitcoin, kind |-> "exact-symbol"]>>
       /\ (Answered /\ llmResult.isValid) => result.records = <<Asset_Bitcoin>>

\* "BTC" accepted at 95%: the result is the Bitcoin record alone
C10_Witness ==
  /\ Answered
  /\ variant = "percentage"
  /\ potentialTokens = <<Tok_BTC>>
  /\ llmOutcome.answer = StringAnswer(FormatAnswer(95, Str_VALID))
  /\ result = Accepted(<<Asset_Bitcoin>>)

----------------------------------------------------------------------------
\* Properties of findTokenMatches (checked under SpecResolve)

\* C11: within one findTokenMatches call no record identifier is bound to more
\* than one token: no two entries of the returned sequence carry the same id,
\* whatever the token list (repeated tokens included) and the asset list.
C11_NoIdBoundTwice ==
  /\ \A i, j \in DOMAIN bindings :
       bindings[i].asset.id = bindings[j].asset.id => i = j
  /\ (rpc = "done" /\ result.kind = "list") =>
       \A i, j \in DOMAIN result.records :
         result.records[i].id = result.records[j].id => i = j

\* the token "bit" given twice binds two different records, Bitcoin and BitDAO
C11_Witness ==
  /\ rpc # "start"
  /\ potentialTokens = <<Tok_bit, Tok_bit>>
  /\ Len(bindings) = 2
  /\ bindings[1].asset = Asset_Bitcoin
  /\ bindings[2].asset = Asset_BitDAO

----------------------------------------------------------------------------
\* Properties of SearchService (checked under SpecSearch)

\* how often provider p answered with URL u over its successful queries
HitCount(p, u) ==
  Cardinality({<<k, i>> \in (1..QueryCap) \X (1..3) :
                 /\ k \in DOMAIN answers[p]
                 /\ i \in DOMAIN answers[p][k].hits
                 /\ answers[p][k].hits[i] = u})
ReturnedUrls(p) == {u \in UrlPool : HitCount(p, u) > 0}
Occurrences(s, u) == Cardinality({k \in DOMAIN s : s[k] = u})
EntriesFor(u) == {k \in DOMAIN searchResult.results : searchResult.results[k].url = u}
DualReturned == srpc = "returned" /\ searchMode = "dual"

C13_SingleProviderUrlsDistinct ==
  (srpc = "returned" /\ searchMode \in Providers /\ searchResult.kind = "value") =>
    /\ \A i, j \in DOMAIN searchResult.urls :
         searchResult.urls[i] = searchResult.urls[j] => i = j
    /\ \A i, j \in DOMAIN searchResult.results :
         searchResult.results[i].url = searchResult.results[j].url => i = j

\* C14: searchDualEngine never throws; a provider that is not configured or whose
\* queries fail contributes nothing and takes nothing away: every hit a provider
\* yielded is in the returned results, and with no hit at all the result is the
\* empty hit sequence.
C14_DualNeverThrows ==
  searchMode = "dual" =>
    /\ searchResult.kind # "throw"
    /\ \A p \in Providers : pstate[p] # "rejected"
    /\ srpc = "returned" =>
         /\ searchResult.kind = "value"
         /\ \A p \in Providers, u \in UrlPool :
              Cardinality({k \in EntriesFor(u) : searchResult.results[k].from = p})
                = HitCount(p, u)
         /\ \A u \in ReturnedUrls("exa") \cup ReturnedUrls("tavily") :
              Occurrences(searchResult.urls, u) = 1
         /\ (ReturnedUrls("exa") \cup ReturnedUrls("tavily") = {}) =>
              searchResult = SearchValue(<<>>, <<>>, "combined")

\* both Exa queries failed and Tavily's second one too: the two hits of Tavily's
\* first query are what the merged result holds
C14_Witness ==
  /\ DualReturned
  /\ clients["exa"] /\ clients["tavily"]
  /\ Len(queries) = 2
  /\ answers["exa"] = <<QueryFailed, QueryFailed>>
  /\ answers["tavily"] = <<QueryAnswered(<<1, 2>>), QueryFailed>>
  /\ searchResult = SearchValue(<<1, 2>>, <<Hit(1, "tavily"), Hit(2, "tavily")>>, "combined")

----------------------------------------------------------------------------
\* Properties of the knowledge-base loader (checked under SpecLoad, SpecLoadFair)

\* the age of the cache file at the call: Date.now() minus its mtime
Age == now - fileAtCall.mtime
Called == kpc # "call"
Returned(s) == kbResult = [kind |-> "snapshot", data |-> s]

\* C15: whenever the cache file exists, parses, and its age is below the TTL, the
\* returned snapshot equals the content of the file and no request is made to the
\* upstream listing.
C15_FreshCacheServedWithoutUpstream ==
  (Called /\ fileAtCall.kind = "snapshot" /\ Age < CACHE_TTL) =>
    /\ kpc = "returned"
    /\ Returned(fileAtCall.data)
    /\ kbSource = "cache"
    /\ lastResponse = NoResponse
    /\ cacheFile = fileAtCall

\* a snapshot one millisecond short of the TTL is returned, without a credential
C15_Witness ==
  /\ kpc = "returned"
  /\ fileAtCall = FileSnapshot(OldSnapshot(which), OldMtime)
  /\ Age = CACHE_TTL - 1
  /\ ~apiKey
  /\ Returned(OldSnapshot(which))

Unreadable == fileAtCall.kind \in {"absent", "malformed"}

C18_LoadEventuallyEnds == <>(kpc \in {"returned", "exited"})

C20_SnapshotOnlyAfterShortPage ==
  (kbSource = "upstream" /\ kpc \in {"write", "returned"}) =>
    /\ stopReason = "short"
    /\ lastResponse.kind = "array"
    /\ Len(PageOf(upstream, lastResponse.page)) < PerPage

----------------------------------------------------------------------------
\* Properties of the service: loader and matcher together (checked under SpecServe)

\* the upstream record with identifier i reaches both thresholds
MeetsThresholds(i) == Passes(MarketRecord(i), MinMarketCap, MinVolume)

\* r is a record of the upstream listing that reaches both thresholds
FilteredRecord(r) ==
  \E i \in 1..Len(upstream) : r = CoinRecord(i) /\ MeetsThresholds(i)

\* C21: every record of the filtered set of a freshly fetched snapshot had
\* market_cap >= 1,000,000 and total_volume >= 10,000, and every record that
\* matching binds, returns in an accepted result or offers as a suggestion is
\* one of them; a record of the listing that misses a threshold is in none.
C21_OnlyFilteredRecordsResolve ==
  /\ \A k \in DOMAIN freshData.filtered :
       freshData.filtered[k] \in 1..Len(upstream) /\ MeetsThresholds(freshData.filtered[k])
  /\ \A k \in DOMAIN kbResult.data.filtered : MeetsThresholds(kbResult.data.filtered[k])
  /\ \A k \in DOMAIN knowledgeBase : FilteredRecord(knowledgeBase[k])
  /\ \A k \in DOMAIN bindings : FilteredRecord(bindings[k].asset)
  /\ \A k \in DOMAIN result.records : FilteredRecord(result.records[k])
  /\ \A k \in DOMAIN result.suggestions : FilteredRecord(result.suggestions[k])

\* with BitDAO (symbol 'bit') in the listing below the market-cap threshold, the
\* token "bit" given twice binds Bitcoin and Wrapped Bitcoin
C21_Witness ==
  /\ rpc = "done"
  /\ which = "complete"
  /\ Len(upstream) >= 4
  /\ kbResult.data.unfiltered = [k \in 1..Len(upstream) |-> k]
  /\ ~MeetsThresholds(2)
  /\ potentialTokens = <<Tok_bit, Tok_bit>>
  /\ AssetsOf(bindings) = <<Asset_Bitcoin, Asset_WrappedBitcoin>>

----------------------------------------------------------------------------
\* Properties of repeated loads (checked under SpecLoad)

\* C22: once one call has completed a fetch, every later call made within the
\* TTL of that completion is served from the cache file.
C22_OneFetchPerTTLWindow ==
  (calls >= 2 /\ Called /\ fetchDoneAt >= 0 /\ now - fetchDoneAt < CACHE_TTL) =>
    kbSource = "cache"

----------------------------------------------------------------------------
\* batchProcessWithRateLimit

\* the items whose mapper is unfinished: an invocation in flight or a backoff
InFlight == {k \in DOMAIN itemState : itemState[k] \in {"running", "waiting"}}

\* the number of the batch an item belongs to
BatchNo(k) == (k - 1) \div batchCall.batchSize

\* C23: at any moment at most batchSize invocations are in flight, and no item
\* of a later batch has started while an item of an earlier batch, its retries
\* and backoff waits included, is unfinished
C23_OneBatchInFlight ==
  /\ Cardinality(InFlight) <= batchCall.batchSize
  /\ \A j, k \in DOMAIN itemState :
       (BatchNo(j) < BatchNo(k) /\ itemState[k] # "pending") => Settled(j)

\* a full batch is in flight, one of its items in a backoff, while the items
\* of the next batch have not started
C23_Witness ==
  /\ batchCall.batchSize = 2
  /\ Cardinality(InFlight) = 2
  /\ \E k \in InFlight : itemState[k] = "waiting"
  /\ \E k \in DOMAIN itemState : itemState[k] = "pending"

\* C24: the operation is invoked at most maxRetries + 1 times on any item
C24_AtMostMaxRetriesPlusOne ==
  \A k \in DOMAIN itemState : invocations[k] <= batchCall.maxRetries + 1

\* an item was dropped on a rate limit after its maxRetries + 1 invocations
C24_Witness ==
  \E k \in DOMAIN itemState :
    /\ batchCall.maxRetries >= 1
    /\ invocations[k] = batchCall.maxRetries + 1
    /\ itemState[k] = "dropped"
    /\ IsRateLimitError(lastError[k])

\* how many elements of the output carry the value of item k
ElementsFor(k) ==
  Cardinality({p \in DOMAIN batchOut : batchOut[p] = MapperValue(k)})

BatchCount == (batchCall.n + batchCall.batchSize - 1) \div batchCall.batchSize

\* the operation failed on item k only with rate-limit errors, and at most
\* maxRetries times
OnlyRateLimited(k) ==
  /\ lastError[k] # NoError => IsRateLimitError(lastError[k])
  /\ invocations[k] - (IF itemState[k] = "value" THEN 1 ELSE 0) <= batchCall.maxRetries

RateLimiting(err) == err.status = 429 \/ TestRateLimit(err.message)

\* C27: the operation is invoked again on an item only after a failure that is
\* a rate limit (status 429, or a message matching the pattern); after any
\* other failure the item is dropped at once
C27_RetryOnlyAfterRateLimit ==
  [][\A k \in DOMAIN itemState :
       /\ (invocations[k] >= 1 /\ invocations'[k] > invocations[k]) =>
            (itemState[k] = "waiting" /\ RateLimiting(lastError[k]))
       /\ (itemState[k] = "running" /\ itemState'[k] # "running"
              /\ lastError'[k] # NoError /\ ~RateLimiting(lastError'[k])) =>
            itemState'[k] = "dropped"]_vars

\* an item was dropped at its first failure although retries were left, and
\* the failure's message is close to the pattern
C27_Witness ==
  \E j, k \in DOMAIN itemState :
    /\ batchCall.maxRetries >= 1
    /\ itemState[k] = "dropped" /\ invocations[k] = 1 /\ lastError[k] = Err_NearMiss
    /\ itemState[j] = "value" /\ invocations[j] = 2 /\ lastError[j] = Err_RateLimitMessage

----------------------------------------------------------------------------
\* scrapeMultiple as a whole

\* C30: scrapeMultiple never throws: a URL whose acquisition fails is left out
\* of the returned sequence while the URLs after it are still processed, and
\* when no URL yields a document the returned sequence is empty
C30_FailedUrlsLeftOutOthersProcessed ==
  /\ spc \in {"loop", "axios", "playwright", "delay", "returned"}
  /\ \A k \in DOMAIN results : results[k] # Null
  /\ \A i \in Attempted :
       /\ urlResult[i] = "null" => ~InResults(i)
       /\ urlResult[i] = "doc" => InResults(i)
  /\ spc = "returned" =>
       /\ \A i \in Attempted : urlResult[i] # "pending"
       /\ (\A i \in Attempted : urlResult[i] = "null") => results = <<>>

\* the first and the last URL failed (the first with both methods failing to
\* give a document), the one between them is the only document returned
C30_Witness ==
  /\ spc = "returned"
  /\ Len(urls) = 3
  /\ urlResult[1] = "null" /\ pwOutcome[1].kind \in FailureKinds
  /\ urlResult[2] = "doc"
  /\ urlResult[3] = "null" /\ AxiosFailed(3)
  /\ Len(results) = 1 /\ results[1].url = urls[2]

----------------------------------------------------------------------------
\* Publish dates (extractContent records what extractPublicationDate returns)

\* the place of the page the returned date was taken from
SourceOfDate ==
  CASE dateMethod = "selector" -> selectorValues[selector]
    [] dateMethod = "jsonLd" -> jsonLdValue
    [] dateMethod = "url" -> urlValue
    [] OTHER -> Absent

\* C29: a publish date carried by a document was extracted from the page (date
\* markup or meta tags, else structured data, else the URL path) and the value
\* it was extracted from lies within the last two years and is not after the
\* current time
C29_DateFromPageWithinTwoYearsNotFuture ==
  (dpc = "returned" /\ publishedDate # NullDate) =>
    /\ SourceOfDate.kind = "instant"
    /\ publishedDate = DayString(SourceOfDate.at \div HoursPerDay)
    /\ SourceOfDate.at >= clock - TwoYearsHours
    /\ SourceOfDate.at <= clock

----------------------------------------------------------------------------
\* The browser over a run of main

\* C28: when the run has ended, by the return of main or by its rejection, no
\* browser the WebScraper launched during the run is left open
C28_BrowserClosedWhenRunEnds == RunEnded => openBrowsers = 0

----------------------------------------------------------------------------
\* The order of the steps of main

\* the steps that follow token detection
LaterSteps == {"synonyms", "search", "scrape", "details", "prompt", "analysis"}

\* C31: when the query validation fails or token detection returns a
\* rejection, the run ends with no later step invoked (synonym generation, a
\* search provider, the scraper, the market-detail fetch, the analysis); and no
\* such step starts before token detection has completed with assets
C31_NoLaterStepWithoutDetection ==
  /\ (validation = "invalid" \/ detection = "error") =>
       /\ ppc = "returned"
       /\ invoked \cap LaterSteps = {}
       /\ consulted = {}
       /\ spc = "idle"
  /\ (invoked \cap LaterSteps # {} \/ consulted # {} \/ spc # "idle") =>
       (validation = "valid" /\ detection = "assets")

\* token detection returned a rejection and the run has ended
C31_Witness ==
  /\ validation = "valid"
  /\ detection = "error"
  /\ ppc = "returned"
  /\ invoked = {"validate", "setup", "detect"}

\* C32: with ENABLE_EXA not 'true', no query is issued to the Exa provider,
\* whatever the search engine setting is
C32_NoExaQueryUnlessEnabled == ~enableExa => "exa" \notin consulted

----------------------------------------------------------------------------
\* batchProcessWithRateLimit: pauses, order, termination

\* C33: when a batch after the first is started, exactly one pause, of at
\* least minDelayMs, has elapsed since the last item of the batch before it
\* finished; and no pause follows the final batch
C33_OnePauseBetweenBatches ==
  /\ (bpc = "inflight" /\ bi > 0) =>
       (pausesSince = 1 /\ pausedMs >= batchCall.minDelayMs)
  /\ (bpc \in {"loop", "returned"} /\ bi >= batchCall.n) => pausesSince = 0
  /\ bpc = "returned" => pauses = IF batchCall.n = 0 THEN 0 ELSE BatchCount - 1

\* the second of two batches is in flight after the first, whose item needed a
\* retry, has been followed by its pause
C33_Witness ==
  /\ bpc = "inflight"
  /\ bi > 0
  /\ batchCall.n >= 2
  /\ invocations[1] = 2
  /\ pausesSince = 1
  /\ pausedMs = 1000

\* C36: the output lists the surviving results in the order of their items in
\* the input, whatever the order in which the operations of a batch completed
\* and however many retries each needed
C36_OutputInInputOrder ==
  \A p, q \in DOMAIN batchOut : p < q => batchOut[p].value < batchOut[q].value

\* both items of a batch are in the output in input order although the first
\* one, after a retry, completed last
C36_Witness ==
  /\ bpc = "returned"
  /\ batchCall.n = 2
  /\ batchCall.batchSize = 2
  /\ itemState[1] = "value" /\ invocations[1] = 2
  /\ itemState[2] = "value" /\ invocations[2] = 1
  /\ lastSettled = 1
  /\ batchOut = <<MapperValue(1), MapperValue(2)>>

\* C37: the call terminates for every item list, batch size and retry limit,
\* every invocation of the operation terminating
C37_BatchProcessTerminates == <>(bpc = "returned")

----------------------------------------------------------------------------
\* The pacing of a provider's queries

\* the provider's loop is issuing a query that is not its first one
IssuingLaterQuery(p) ==
  /\ srpc = "running"
  /\ pstate[p] = "query"
  /\ Len(answers[p]) >= 1
  /\ Len(answers[p]) < Consulted

\* C35: within a single-provider call, a query after the first is issued only
\* when the provider's delay (200 ms for Exa, 500 ms for Tavily) has elapsed
\* since the query before it ended, also when that query failed
C35_DelayBetweenQueries ==
  \A p \in Providers :
    (searchMode = p /\ IssuingLaterQuery(p)) => delayedMs[p] >= ProviderDelayMs(p)

----------------------------------------------------------------------------
\* scrapeMultiple: the cap and the pacing of its attempts

\* scrapeUrl was called for the URL at position i
Started(i) == i < idx \/ (i = idx /\ spc \in {"axios", "playwright", "delay"})

\* the URLs whose scrapeUrl call has not returned
UrlsInFlight == {i \in UrlSlots : Started(i) /\ urlResult[i] = "pending"}

----------------------------------------------------------------------------
\* The browser and the pages of a WebScraper instance (checked under SpecCalls)

\* C38: between two cleanups the instance launches at most one browser, also
\* with overlapping scrapeUrl calls, and every browser launched and not closed
\* is the one this.browser refers to, which is the one cleanup closes
C38_OneBrowserAlwaysReferenced ==
  /\ launches <= 1
  /\ liveBrowsers \subseteq {browserRef}

\* C39: when an attempt of the heavy fetch has finished, the page it opened is
\* closed, whether navigation and content retrieval succeeded or failed
C39_PageClosedWhenAttemptEnds ==
  \A c \in ScrapeCalls : callPc[c] = "returned" => ~pageOpen[c]

----------------------------------------------------------------------------
\* Properties of PersistenceMemory (checked under SpecPersistence)

\* C40: after set(k, v), get(k) returns v until a later set, remove or clear
\* touches k, also while the load started by the constructor is pending or
\* has just settled
C40_GetReturnsLastSet ==
  \A k \in MemKeys : lastSet[k] # Undefined => get(k, Undefined) = lastSet[k]

====
